---------------------------- MODULE Spec2Model ----------------------------
(***************************************************************************)
(* cvgen (src/scripts/release/upload_packages, lines 16-584): the          *)
(* generator of the controlled-vocabulary tables, and the accessor         *)
(* routines it writes into cv.cpp (cv, cvTermInfo, cvIsA, cvids) working   *)
(* on the lazily initialized infoMap_, cvMap_ and cvids_.                  *)
(*                                                                         *)
(* Strings are sequences of one-character strings, so that formatting,     *)
(* splitting, escaping and number conversion are computed character by     *)
(* character as the code computes them.                                    *)
(***************************************************************************)
EXTENDS Integers, Sequences, FiniteSets, TLC

VARIABLES
    obos,           \* vector<OBO> obos of main(): the parsed input files, in command-line order
    cv_hpp,         \* enum CVID of the emitted cv.hpp
    cv_cpp,         \* the static tables of the emitted cv.cpp, as compiled into the process
    initialized_,   \* bool initialized_ of the generated cv.cpp
    infoMap_,       \* map<CVID,CVTermInfo> infoMap_
    cvMap_,         \* map<string,CV> cvMap_
    cvids_,         \* vector<CVID> cvids_
    initRuns,       \* how many times the body of initialize() has been entered
    pc,             \* where each thread of the process is in its accessor call
    call,           \* the call made last, with its arguments
    ret             \* what that call returned, or the exception it ended in

vars == <<obos, cv_hpp, cv_cpp, initialized_, infoMap_, cvMap_, cvids_, initRuns, pc, call, ret>>

---------------------------------------------------------------------------
(* Characters and decimal text *)

DigitChars == <<"0", "1", "2", "3", "4", "5", "6", "7", "8", "9">>

IsDigit(c) == \E i \in 1..10 : DigitChars[i] = c

DigitVal(c) == (CHOOSE i \in 1..10 : DigitChars[i] = c) - 1

LetterChars ==
    {"a", "b", "c", "d", "e", "f", "g", "h", "i", "j", "k", "l", "m",
     "n", "o", "p", "q", "r", "s", "t", "u", "v", "w", "x", "y", "z",
     "A", "B", "C", "D", "E", "F", "G", "H", "I", "J", "K", "L", "M",
     "N", "O", "P", "Q", "R", "S", "T", "U", "V", "W", "X", "Y", "Z"}

\* isspace() of the C locale, over the characters the inputs use
IsSpace(c) == c \in {" ", "\t", "\n"}

RECURSIVE Decimal(_)
\* operator<< of an unsigned integer: its decimal digits, no padding
Decimal(n) ==
    IF n < 10 THEN <<DigitChars[n + 1]>>
    ELSE Append(Decimal(n \div 10), DigitChars[(n % 10) + 1])

RECURSIVE PadLeft(_, _, _)
\* setw(w) << setfill(c): fill on the left up to width w, never truncate
PadLeft(s, w, c) == IF Len(s) >= w THEN s ELSE PadLeft(<<c>> \o s, w, c)

RECURSIVE Concat(_)
Concat(ss) == IF ss = <<>> THEN <<>> ELSE Head(ss) \o Concat(Tail(ss))

---------------------------------------------------------------------------
(* The generator: names, codes and escaping *)

\* inline char toAllowableChar(char a)
toAllowableChar(a) == IF a \in LetterChars \/ IsDigit(a) THEN a ELSE "_"

\* string enumName(const string& prefix, const string& name)
enumName(prefix, name) ==
    prefix \o <<"_">> \o [i \in 1..Len(name) |-> toAllowableChar(name[i])]

\* const size_t enumBlockSize_ = 100000000;
enumBlockSize_ == 100000000

\* enumValue with the index counted from 1
enumValueShifted(term, index) == term.id + (enumBlockSize_ * (index + 1))

\* enumValue with the codes counted from CVID_Unknown on
enumValueFromUnknown(term, index) == term.id + (enumBlockSize_ * index) - 1

\* size_t enumValue(const Term& term, size_t index); index counts from 0
enumValue(term, index) == term.id + (enumBlockSize_ * index)

\* a replacement of the first occurrence only
replace_first(s, pat, rep) ==
    LET ks == {k \in 1..(Len(s) - Len(pat) + 1) : SubSeq(s, k, k + Len(pat) - 1) = pat}
        k  == CHOOSE k \in ks : \A j \in ks : k <= j
    IN IF ks = {} THEN s
       ELSE SubSeq(s, 1, k - 1) \o rep \o SubSeq(s, k + Len(pat), Len(s))

RECURSIVE replace_all(_, _, _)
\* bal::replace_all: every occurrence of pat, left to right, replaced text not rescanned
replace_all(s, pat, rep) ==
    IF Len(s) < Len(pat) THEN s
    ELSE IF SubSeq(s, 1, Len(pat)) = pat
         THEN rep \o replace_all(SubSeq(s, Len(pat) + 1, Len(s)), pat, rep)
         ELSE <<Head(s)>> \o replace_all(Tail(s), pat, rep)

\* the punctuation escape_copy doubles the backslash of, in the order of its calls
EscapedPunct == <<"!", ":", ",", "(", ")", "[", "]", "{", "}">>

RECURSIVE escape_from(_, _)
escape_from(s, k) ==
    IF k > Len(EscapedPunct) THEN s
    ELSE escape_from(replace_all(s, <<"\\", EscapedPunct[k]>>,
                                 <<"\\", "\\", EscapedPunct[k]>>), k + 1)

\* string escape_copy(const string& str)
escape_copy(str) == escape_from(str, 1)

RECURSIVE CLiteral(_)
\* the value of the string literal "s" of the emitted file once compiled:
\* \\ is one backslash, \" a quote, \n \t the control characters, and a
\* backslash before any other character leaves that character
CLiteral(s) ==
    IF s = <<>> THEN <<>>
    ELSE IF Head(s) = "\\" /\ Len(s) >= 2
         THEN LET c == s[2]
                  v == CASE c = "n" -> "\n"
                         [] c = "t" -> "\t"
                         [] OTHER -> c
              IN <<v>> \o CLiteral(SubSeq(s, 3, Len(s)))
         ELSE <<Head(s)>> \o CLiteral(Tail(s))

---------------------------------------------------------------------------
(* The emitted declarations file: enum CVID *)

CVID_Unknown == -1

UnknownName == <<"C", "V", "I", "D", "_", "U", "n", "k", "n", "o", "w", "n">>

\* the enumerators of a term with the synonyms of every file written as aliases
TermEnumeratorsOfAll(obo, index, term) ==
    <<[name |-> enumName(term.prefix, term.name), alias |-> FALSE,
       target |-> <<>>, value |-> enumValue(term, index)]>>
    \o [k \in 1..Len(term.exactSynonyms) |->
          [name |-> enumName(term.prefix, term.exactSynonyms[k]), alias |-> TRUE,
           target |-> enumName(term.prefix, term.name), value |-> 0]]

\* the enumerators one term contributes: its own, then, for prefix "MS" only,
\* one per exact synonym, written as an alias of the term's enumerator
TermEnumerators(obo, index, term) ==
    <<[name |-> enumName(term.prefix, term.name), alias |-> FALSE,
       target |-> <<>>, value |-> enumValue(term, index)]>>
    \o (IF obo.prefix = <<"M", "S">>
        THEN [k \in 1..Len(term.exactSynonyms) |->
                [name |-> enumName(term.prefix, term.exactSynonyms[k]), alias |-> TRUE,
                 target |-> enumName(term.prefix, term.name), value |-> 0]]
        ELSE <<>>)

\* writeHpp: "enum PWIZ_API_DECL CVID { CVID_Unknown = -1, ... }", in emission order
writeHpp ==
    <<[name |-> UnknownName, alias |-> FALSE, target |-> <<>>, value |-> CVID_Unknown]>>
    \o Concat([i \in 1..Len(obos) |->
                Concat([j \in 1..Len(obos[i].terms) |->
                          TermEnumerators(obos[i], i - 1, obos[i].terms[j])])])

\* the emitted enum compiles only if no enumerator name is declared twice
EnumCompiles ==
    \A a, b \in 1..Len(cv_hpp) : cv_hpp[a].name = cv_hpp[b].name => a = b

\* the value the compiler gives the enumerator called name
CVIDValue(name) ==
    LET e == cv_hpp[CHOOSE a \in 1..Len(cv_hpp) : cv_hpp[a].name = name]
    IN IF e.alias
       THEN cv_hpp[CHOOSE a \in 1..Len(cv_hpp) : cv_hpp[a].name = e.target].value
       ELSE e.value

---------------------------------------------------------------------------
(* The emitted definitions file: the static tables, as compiled *)

SentinelRow ==
    [cvid |-> CVID_Unknown,
     id   |-> <<"?", "?", ":", "0", "0", "0", "0", "0", "0", "0">>,
     name |-> UnknownName,
     def  |-> UnknownName]

\* "<prefix>:" << setw(7) << setfill('0') << it->id
IdString(term) == term.prefix \o <<":">> \o PadLeft(Decimal(term.id), 7, "0")

\* one row of termInfos_: {enumName(*it), "prefix:0000000", "name", "def"}
TermRow(term) ==
    [cvid |-> CVIDValue(enumName(term.prefix, term.name)),
     id   |-> CLiteral(IdString(term)),
     name |-> CLiteral(escape_copy(term.name)),
     def  |-> CLiteral(escape_copy(term.def))]

\* const TermInfo termInfos_[]: the sentinel row, then one row per term
termInfos_ ==
    <<SentinelRow>>
    \o Concat([i \in 1..Len(obos) |->
                [j \in 1..Len(obos[i].terms) |-> TermRow(obos[i].terms[j])]])

\* termMaps[index]: the terms of one input file by id (a later term of the
\* same id replaces an earlier one)
termMaps(i) ==
    LET ts == obos[i].terms
    IN [id \in {ts[j].id : j \in 1..Len(ts)} |->
          ts[CHOOSE j \in 1..Len(ts) :
                /\ ts[j].id = id
                /\ \A k \in 1..Len(ts) : ts[k].id = id => k <= j]]

\* what dereferencing termMaps[index][id] for an id the map does not hold gives
NullDeref == CVID_Unknown - 1

\* enumName(*termMaps[obo-obos.begin()][*jt]) as a code
ParentCVID(i, id) ==
    IF id \in DOMAIN termMaps(i)
    THEN CVIDValue(enumName(termMaps(i)[id].prefix, termMaps(i)[id].name))
    ELSE NullDeref

RelationRows(i, term, parents) ==
    [k \in 1..Len(parents) |->
        [first  |-> CVIDValue(enumName(term.prefix, term.name)),
         second |-> ParentCVID(i, parents[k])]]

\* relationsIsA_ with the part-of references emitted into it as well
relationsIsAOrPartOf_ ==
    Concat([i \in 1..Len(obos) |->
             Concat([j \in 1..Len(obos[i].terms) |->
                       RelationRows(i, obos[i].terms[j],
                                    obos[i].terms[j].parentsIsA
                                      \o obos[i].terms[j].parentsPartOf)])])

\* CVIDPair relationsIsA_[]
relationsIsA_ ==
    Concat([i \in 1..Len(obos) |->
             Concat([j \in 1..Len(obos[i].terms) |->
                       RelationRows(i, obos[i].terms[j], obos[i].terms[j].parentsIsA)])])

\* CVIDPair relationsPartOf_[]
relationsPartOf_ ==
    Concat([i \in 1..Len(obos) |->
             Concat([j \in 1..Len(obos[i].terms) |->
                       RelationRows(i, obos[i].terms[j], obos[i].terms[j].parentsPartOf)])])

SynonymRows(term) ==
    [k \in 1..Len(term.exactSynonyms) |->
        [first  |-> CVIDValue(enumName(term.prefix, term.name)),
         second |-> CLiteral(term.exactSynonyms[k])]]

\* CVIDStringPair relationsExactSynonym_[]: {CVID_Unknown, "Unknown"}, then the
\* synonyms of every term of every input file
relationsExactSynonym_ ==
    <<[first |-> CVID_Unknown, second |-> <<"U", "n", "k", "n", "o", "w", "n">>]>>
    \o Concat([i \in 1..Len(obos) |->
                Concat([j \in 1..Len(obos[i].terms) |-> SynonymRows(obos[i].terms[j])])])

\* const char* oboPrefixes_[]
oboPrefixes_ == [i \in 1..Len(obos) |-> obos[i].prefix]

RECURSIVE ParseDecimal(_)
\* the value of a decimal integer literal
ParseDecimal(s) ==
    IF s = <<>> THEN 0
    ELSE ParseDecimal(SubSeq(s, 1, Len(s) - 1)) * 10 + DigitVal(s[Len(s)])

\* a block size of 10^7, the width of the id strings, in the emitted file
EmittedBlockSizeTenth == ParseDecimal(Decimal(enumBlockSize_ \div 10))

\* "const size_t enumBlockSize_ = " << enumBlockSize_ << ";" of the emitted file
EmittedBlockSize == ParseDecimal(Decimal(enumBlockSize_))

VersionKey == <<"v", "e", "r", "s", "i", "o", "n", ":", " ">>

DateKey == <<"d", "a", "t", "e", ":", " ">>

\* regex_match(line, what, ".*?[^-]version: (\S+)"): the whole line has to
\* match, so "version: " follows a character that is no hyphen and the rest
\* of the line is one token, which is what[1]
MatchVersion(line) ==
    LET ks == {k \in 2..(Len(line) - Len(VersionKey)) :
                 /\ SubSeq(line, k, k + Len(VersionKey) - 1) = VersionKey
                 /\ line[k - 1] # "-"
                 /\ \A j \in (k + Len(VersionKey))..Len(line) : ~IsSpace(line[j])}
    IN IF ks = {} THEN [matched |-> FALSE, what |-> <<>>]
       ELSE [matched |-> TRUE,
             what |-> SubSeq(line, (CHOOSE k \in ks : \A j \in ks : k <= j) + Len(VersionKey),
                             Len(line))]

RECURSIVE LeadingToken(_)
\* (\S+), greedy: the characters up to the first white space
LeadingToken(s) ==
    IF s = <<>> \/ IsSpace(Head(s)) THEN <<>> ELSE <<Head(s)>> \o LeadingToken(Tail(s))

RECURSIVE SkipLeadingSpace(_)
SkipLeadingSpace(s) ==
    IF s # <<>> /\ IsSpace(Head(s)) THEN SkipLeadingSpace(Tail(s)) ELSE s

\* regex_match(line, what, "\s*date: (\S+).*")
MatchDate(line) ==
    LET body == SkipLeadingSpace(line)
        tok  == LeadingToken(SubSeq(body, Len(DateKey) + 1, Len(body)))
    IN IF Len(body) > Len(DateKey) /\ SubSeq(body, 1, Len(DateKey)) = DateKey /\ tok # <<>>
       THEN [matched |-> TRUE, what |-> tok]
       ELSE [matched |-> FALSE, what |-> <<>>]

RECURSIVE VersionScan(_, _, _)
\* the loop over obo->header: a version line ends the loop; a date line is
\* taken only while version is empty
VersionScan(header, i, version) ==
    IF i > Len(header) THEN version
    ELSE IF MatchVersion(header[i]).matched THEN MatchVersion(header[i]).what
    ELSE VersionScan(header, i + 1,
                     IF version = <<>> /\ MatchDate(header[i]).matched
                     THEN MatchDate(header[i]).what ELSE version)

\* string version of writeCpp for one input file
ExtractVersion(header) ==
    LET version == VersionScan(header, 1, <<>>)
    IN IF version = <<>> THEN <<"u", "n", "k", "n", "o", "w", "n">> ELSE version

\* the texts of the two names and the two addresses initialize() sets, each
\* kept whole
MSFullName == <<"Proteomics Standards Initiative Mass Spectrometry Ontology">>

MSURI == <<"http://psidev.cvs.sourceforge.net/*checkout*/psidev/psi/psi-ms/mzML/controlledVocabulary/psi-ms.obo">>

UOFullName == <<"Unit Ontology">>

UOURI == <<"http://obo.cvs.sourceforge.net/*checkout*/obo/obo/ontology/phenotype/unit.obo">>

\* the assignments to cvMap_ written into initialize(), in order: the fixed
\* ones, then id and version of every input file
cvMapAssignments ==
    <<[key |-> <<"M", "S">>, field |-> "fullName", value |-> MSFullName],
      [key |-> <<"M", "S">>, field |-> "URI", value |-> MSURI],
      [key |-> <<"U", "O">>, field |-> "fullName", value |-> UOFullName],
      [key |-> <<"U", "O">>, field |-> "URI", value |-> UOURI]>>
    \o Concat([i \in 1..Len(obos) |->
                <<[key |-> CLiteral(obos[i].prefix), field |-> "id",
                   value |-> CLiteral(obos[i].prefix)],
                  [key |-> CLiteral(obos[i].prefix), field |-> "version",
                   value |-> CLiteral(ExtractVersion(obos[i].header))]>>])

\* the texts between the quotes of the name and def literals of termInfos_,
\* as written: the sentinel row, then one row per term
termInfoLiterals ==
    <<[name |-> UnknownName, def |-> UnknownName]>>
    \o Concat([i \in 1..Len(obos) |->
                [j \in 1..Len(obos[i].terms) |->
                    [name |-> escape_copy(obos[i].terms[j].name),
                     def  |-> escape_copy(obos[i].terms[j].def)]]])

\* writeCpp: the tables the emitted file defines
writeCpp ==
    [termInfos_             |-> termInfos_,
     termInfoLiterals       |-> termInfoLiterals,
     cvMapAssignments       |-> cvMapAssignments,
     relationsIsA_          |-> relationsIsA_,
     relationsPartOf_       |-> relationsPartOf_,
     relationsExactSynonym_ |-> relationsExactSynonym_,
     oboPrefixes_           |-> oboPrefixes_,
     enumBlockSize_         |-> EmittedBlockSize]

---------------------------------------------------------------------------
(* The emitted definitions file: initialize() *)

\* CVTermInfo with cvid left zero
DefaultCVTermInfoZero ==
    [cvid |-> 0, id |-> <<>>, name |-> <<>>, def |-> <<>>,
     parentsIsA |-> <<>>, parentsPartOf |-> <<>>, exactSynonyms |-> <<>>]

\* CVTermInfo() : cvid((CVID)-1) {}
DefaultCVTermInfo ==
    [cvid |-> CVID_Unknown, id |-> <<>>, name |-> <<>>, def |-> <<>>,
     parentsIsA |-> <<>>, parentsPartOf |-> <<>>, exactSynonyms |-> <<>>]

\* map::operator[] used as an lvalue: the map with key k present
Touch(m, k) ==
    IF k \in DOMAIN m THEN m
    ELSE [x \in DOMAIN m \cup {k} |-> IF x = k THEN DefaultCVTermInfo ELSE m[x]]

\* infoMap_[k] = v
Assign(m, k, v) == [x \in DOMAIN m \cup {k} |-> IF x = k THEN v ELSE m[x]]

RECURSIVE LoadTermInfos(_, _)
\* for each row: temp = row; infoMap_[temp.cvid] = temp
LoadTermInfos(m, rows) ==
    IF rows = <<>> THEN m
    ELSE LoadTermInfos(
            Assign(m, Head(rows).cvid,
                   [DefaultCVTermInfo EXCEPT !.cvid = Head(rows).cvid,
                                             !.id = Head(rows).id,
                                             !.name = Head(rows).name,
                                             !.def = Head(rows).def]),
            Tail(rows))

RECURSIVE LoadRelations(_, _, _)
\* for each pair: infoMap_[it->first].<field>.push_back(it->second)
LoadRelations(m, pairs, field) ==
    IF pairs = <<>> THEN m
    ELSE LET k == Head(pairs).first
             t == Touch(m, k)
             r == CASE field = "parentsIsA" ->
                         [t[k] EXCEPT !.parentsIsA = Append(@, Head(pairs).second)]
                    [] field = "parentsPartOf" ->
                         [t[k] EXCEPT !.parentsPartOf = Append(@, Head(pairs).second)]
                    [] OTHER ->
                         [t[k] EXCEPT !.exactSynonyms = Append(@, Head(pairs).second)]
         IN LoadRelations(Assign(t, k, r), Tail(pairs), field)

EmptyMap == [x \in {} |-> DefaultCVTermInfo]

\* infoMap_ once initialize() has run on the empty maps
InitialInfoMap ==
    LoadRelations(
        LoadRelations(
            LoadRelations(LoadTermInfos(EmptyMap, cv_cpp.termInfos_),
                          cv_cpp.relationsIsA_, "parentsIsA"),
            cv_cpp.relationsPartOf_, "parentsPartOf"),
        cv_cpp.relationsExactSynonym_, "exactSynonyms")

\* cvids_ once initialize() has run: cvids_.push_back(it->cvid) for every row
InitialCvids == [k \in 1..Len(cv_cpp.termInfos_) |-> cv_cpp.termInfos_[k].cvid]

\* CV(): the four strings empty
DefaultCV == [id |-> <<>>, fullName |-> <<>>, URI |-> <<>>, version |-> <<>>]

\* map::operator[] of cvMap_: the map with key k present
TouchCV(m, k) ==
    IF k \in DOMAIN m THEN m
    ELSE [x \in DOMAIN m \cup {k} |-> IF x = k THEN DefaultCV ELSE m[x]]

RECURSIVE LoadCVs(_, _)
\* for each assignment: cvMap_[key].<field> = value
LoadCVs(m, as) ==
    IF as = <<>> THEN m
    ELSE LET k == Head(as).key
             t == TouchCV(m, k)
             r == CASE Head(as).field = "fullName" -> [t[k] EXCEPT !.fullName = Head(as).value]
                    [] Head(as).field = "URI"      -> [t[k] EXCEPT !.URI = Head(as).value]
                    [] Head(as).field = "id"       -> [t[k] EXCEPT !.id = Head(as).value]
                    [] OTHER                       -> [t[k] EXCEPT !.version = Head(as).value]
         IN LoadCVs([x \in DOMAIN t |-> IF x = k THEN r ELSE t[x]], Tail(as))

EmptyCVMap == [x \in {} |-> DefaultCV]

\* cvMap_ once initialize() has run on the empty maps
InitialCVMap == LoadCVs(EmptyCVMap, cv_cpp.cvMapAssignments)

\* initialize() run again on maps it has filled already: every row pushed
\* onto cvids_ once more
CvidsReinitialized == (IF initialized_ THEN cvids_ ELSE <<>>) \o InitialCvids

\* if (!initialized_) initialize();
CVMapAfterInit == IF initialized_ THEN cvMap_ ELSE InitialCVMap

RunsAfterInit == IF initialized_ THEN initRuns ELSE initRuns + 1

\* the map built for the first call and empty for the calls after it
MapOfFirstCallOnly == IF initialized_ THEN EmptyMap ELSE InitialInfoMap

MapAfterInit == IF initialized_ THEN infoMap_ ELSE InitialInfoMap

CvidsAfterInit == IF initialized_ THEN cvids_ ELSE InitialCvids

---------------------------------------------------------------------------
(* The emitted definitions file: the accessors *)

\* a split at the first colon only
SplitAtFirst(s) ==
    IF \A k \in 1..Len(s) : s[k] # ":" THEN <<s>>
    ELSE LET k == CHOOSE k \in 1..Len(s) :
                     s[k] = ":" /\ \A h \in 1..(k - 1) : s[h] # ":"
         IN <<SubSeq(s, 1, k - 1), SubSeq(s, k + 1, Len(s))>>

RECURSIVE Split(_)
\* bal::split(tokens, id, bal::is_any_of(":")): one token more than colons
Split(s) ==
    IF \A k \in 1..Len(s) : s[k] # ":" THEN <<s>>
    ELSE LET k == CHOOSE k \in 1..Len(s) :
                     s[k] = ":" /\ \A h \in 1..(k - 1) : s[h] # ":"
         IN <<SubSeq(s, 1, k - 1)>> \o Split(SubSeq(s, k + 1, Len(s)))

RECURSIVE SkipSpace(_)
SkipSpace(s) == IF s # <<>> /\ IsSpace(Head(s)) THEN SkipSpace(Tail(s)) ELSE s

RECURSIVE LeadingDigits(_)
LeadingDigits(s) ==
    IF s # <<>> /\ IsDigit(Head(s)) THEN <<Head(s)>> \o LeadingDigits(Tail(s)) ELSE <<>>

\* strtoul(str, &end, 10) followed by the cast to unsigned int: white space,
\* an optional sign, then the longest run of digits; what follows is left
\* unread. converted is FALSE when end == str. A negated value 2^32 - v is
\* carried as -v, which is how the 32-bit CVID it is added into reads it.
strtoul(str) ==
    LET body   == SkipSpace(str)
        signed == body # <<>> /\ Head(body) \in {"+", "-"}
        digits == LeadingDigits(IF signed THEN Tail(body) ELSE body)
        v      == ParseDecimal(digits)
    IN [converted |-> digits # <<>>,
        value     |-> IF digits = <<>> THEN 0
                      ELSE IF signed /\ Head(body) = "-" THEN 0 - v ELSE v,
        rest      |-> SubSeq(body, (IF signed THEN 1 ELSE 0) + Len(digits) + 1, Len(body))]

\* stringToCVID without the test of the conversion
stringToCVIDUnchecked(str) == [thrown |-> FALSE, value |-> strtoul(str).value]

\* inline unsigned int stringToCVID(const std::string& str); errno stays 0
\* for every token of at most nine digits
stringToCVID(str) ==
    LET r == strtoul(str)
    IN IF r.value = 0 /\ ~r.converted
       THEN [thrown |-> TRUE, value |-> 0]
       ELSE [thrown |-> FALSE, value |-> r.value]

\* find_if whose result is not compared with the end: the first file for a
\* prefix no file has
FindPrefixOrFirst(prefix) ==
    LET ps == cv_cpp.oboPrefixes_
    IN IF \E i \in 1..Len(ps) : ps[i] = prefix
       THEN (CHOOSE i \in 1..Len(ps) :
                /\ ps[i] = prefix
                /\ \A h \in 1..(i - 1) : ps[h] # prefix) - 1
       ELSE 0

\* find_if(oboPrefixes_, oboPrefixes_+oboPrefixesSize_, StringEquals(prefix)):
\* the index, from 0, of the first equal prefix, or oboPrefixesSize_
FindPrefix(prefix) ==
    LET ps == cv_cpp.oboPrefixes_
    IN IF \E i \in 1..Len(ps) : ps[i] = prefix
       THEN (CHOOSE i \in 1..Len(ps) :
                /\ ps[i] = prefix
                /\ \A h \in 1..(i - 1) : ps[h] # prefix) - 1
       ELSE Len(ps)

\* what cvTermInfo(const string& id) does after initialize(): the exception
\* it throws, or the key whose record it returns
LookupId(id) ==
    LET tokens == Split(id)
    IN IF Len(tokens) # 2 THEN [kind |-> "runtime_error", key |-> CVID_Unknown]
       ELSE LET it == FindPrefix(tokens[1])
            IN IF it = Len(cv_cpp.oboPrefixes_)
               THEN [kind |-> "info", key |-> CVID_Unknown]
               ELSE LET n == stringToCVID(tokens[2])
                    IN IF n.thrown
                       THEN [kind |-> "bad_lexical_cast", key |-> CVID_Unknown]
                       ELSE [kind |-> "info",
                             key  |-> it * cv_cpp.enumBlockSize_ + n.value]

RECURSIVE IsAWalk(_, _, _, _)
RECURSIVE IsAParents(_, _, _, _)
\* cvIsA without its first line
IsAWalkProper(m, child, parent, path) ==
    IF child \in path THEN "diverges"
    ELSE IsAParents(m, (IF child \in DOMAIN m THEN m[child].parentsIsA ELSE <<>>),
                    parent, path \cup {child})

\* cvIsA with a guard: a call that comes back to a code on its path returns false
IsAWalkGuarded(m, child, parent, path) ==
    IF child = parent THEN "true"
    ELSE IF child \in path THEN "false"
    ELSE IsAParents(m, (IF child \in DOMAIN m THEN m[child].parentsIsA ELSE <<>>),
                    parent, path \cup {child})

\* cvIsA(child, parent) on map m, path being the codes of the calls it is nested
\* in: "true", "false", or "diverges" when the call comes back to a code already
\* on its path (nothing it reads has changed, so it recurses without end)
IsAWalk(m, child, parent, path) ==
    IF child = parent THEN "true"
    ELSE IF child \in path THEN "diverges"
    ELSE IsAParents(m, (IF child \in DOMAIN m THEN m[child].parentsIsA ELSE <<>>),
                    parent, path \cup {child})

\* the for loop of cvIsA over info.parentsIsA, in list order
IsAParents(m, parents, parent, path) ==
    IF parents = <<>> THEN "false"
    ELSE LET r == IsAWalk(m, Head(parents), parent, path)
         IN IF r = "false" THEN IsAParents(m, Tail(parents), parent, path) ELSE r

RECURSIVE IsACalls(_, _, _, _)
RECURSIVE IsACallsOfParents(_, _, _, _)
\* how many calls of cvIsA the call cvIsA(child, parent) makes in all
IsACalls(m, child, parent, path) ==
    IF child = parent \/ child \in path THEN 0
    ELSE IsACallsOfParents(m, (IF child \in DOMAIN m THEN m[child].parentsIsA ELSE <<>>),
                           parent, path \cup {child})

IsACallsOfParents(m, parents, parent, path) ==
    IF parents = <<>> THEN 0
    ELSE 1 + IsACalls(m, Head(parents), parent, path)
           + (IF IsAWalk(m, Head(parents), parent, path) = "false"
              THEN IsACallsOfParents(m, Tail(parents), parent, path) ELSE 0)

RECURSIVE IsADepth(_, _, _, _)
RECURSIVE IsADepthOfParents(_, _, _, _)
\* the recursion depth of cvIsA(child, parent): the most calls of cvIsA that
\* are active inside it at one time, up to the return or to the call that
\* comes back to a code on its path
IsADepth(m, child, parent, path) ==
    IF child = parent \/ child \in path THEN 0
    ELSE IsADepthOfParents(m, (IF child \in DOMAIN m THEN m[child].parentsIsA ELSE <<>>),
                           parent, path \cup {child})

\* the for loop of cvIsA: one call per parent, until one does not return false
IsADepthOfParents(m, parents, parent, path) ==
    IF parents = <<>> THEN 0
    ELSE LET d == 1 + IsADepth(m, Head(parents), parent, path)
             e == IF IsAWalk(m, Head(parents), parent, path) = "false"
                  THEN IsADepthOfParents(m, Tail(parents), parent, path) ELSE 0
         IN IF d >= e THEN d ELSE e

---------------------------------------------------------------------------
(* The input files considered *)

MS == <<"M", "S">>

UO == <<"U", "O">>

\* the largest number of terms one run loads, over all its input files
MaxTerms == 3

\* the largest number of is-a and part-of references one run holds
MaxEdges == 3

\* local ids: the smallest, an ordinary one, and the largest below enumBlockSize_
IdSet == {0, 1, enumBlockSize_ - 1}

\* the text of the term prefix:id in the input files considered; names that
\* stay distinct as enumerators, some holding an OBO escape
TermText(prefix, id) ==
    CASE prefix = MS /\ id = 0 ->
           [name |-> <<"a">>, def |-> <<"d", "a">>, syn |-> <<>>]
      [] prefix = MS /\ id = 1 ->
           [name |-> <<"b">>, def |-> <<"x", "\\", ":", "y">>, syn |-> << <<"s">> >>]
      [] prefix = MS ->
           [name |-> <<"c", "\\", ",", "c">>, def |-> <<"d", "c">>, syn |-> <<>>]
      [] id = 0 ->
           [name |-> <<"e", "\\", "(">>, def |-> <<"d", "e">>, syn |-> <<>>]
      [] id = 1 ->
           [name |-> <<"f">>, def |-> <<"\\", "]", "f">>, syn |-> << <<"u">> >>]
      [] OTHER ->
           [name |-> <<"g">>, def |-> <<"d", "g">>, syn |-> <<>>]

\* the members of the list ids that are in the set s, in the order of ids
InOrder(ids, s) == SelectSeq(ids, LAMBDA x : x \in s)

\* struct Term as the parser leaves it
MkTerm(prefix, ids, k, isa, partof) ==
    [prefix        |-> prefix,
     id            |-> ids[k],
     name          |-> TermText(prefix, ids[k]).name,
     def           |-> TermText(prefix, ids[k]).def,
     exactSynonyms |-> TermText(prefix, ids[k]).syn,
     parentsIsA    |-> InOrder(ids, isa[k]),
     parentsPartOf |-> InOrder(ids, partof[k])]

\* struct OBO as the parser leaves it: the header lines and the terms, in
\* source order
MkOBO(prefix, ids, isa, partof) ==
    [prefix |-> prefix,
     header |-> <<>>,
     terms  |-> [k \in 1..Len(ids) |-> MkTerm(prefix, ids, k, isa, partof)]]

IdLists ==
    {l \in UNION {[1..n -> IdSet] : n \in 1..Cardinality(IdSet)} :
        \A a, b \in 1..Len(l) : l[a] = l[b] => a = b}

NoEdges(ids) == [k \in 1..Len(ids) |-> {}]

RECURSIVE SumCard(_)
SumCard(f) ==
    IF f = <<>> THEN 0 ELSE Cardinality(Head(f)) + SumCard(Tail(f))

\* the parent references of the terms of one file: every reference names a
\* term of the same file
EdgeMaps(ids, most) ==
    {f \in [1..Len(ids) -> SUBSET {ids[k] : k \in 1..Len(ids)}] : SumCard(f) <= most}

\* runs that differ in the files given, their order, and the source order of
\* their terms
OrderInputs ==
    {<<MkOBO(p, l, NoEdges(l), NoEdges(l))>> :
        p \in {MS, UO}, l \in {l \in IdLists : Len(l) <= MaxTerms}}
    \cup
    {<<MkOBO(o[1], l[1], NoEdges(l[1]), NoEdges(l[1])),
       MkOBO(o[2], l[2], NoEdges(l[2]), NoEdges(l[2]))>> :
        o \in {<<MS, UO>>, <<UO, MS>>},
        l \in {l \in IdLists \X IdLists : Len(l[1]) + Len(l[2]) <= MaxTerms}}

\* one file of three terms, with every choice of at most MaxEdges references,
\* at most one of them part-of
ChainIds == <<1, enumBlockSize_ - 1, 0>>

\* the choices of is-a and part-of references of a file: at most most in
\* all, at most one of them part-of
EdgeChoices(ids, most) ==
    {e \in EdgeMaps(ids, most) \X EdgeMaps(ids, 1) : SumCard(e[1]) + SumCard(e[2]) <= most}

OneFileGraphs ==
    {<<MkOBO(MS, ChainIds, e[1], e[2])>> : e \in EdgeChoices(ChainIds, MaxEdges)}

\* two files holding the same local ids, with references in both
TwoFileGraphs(most) ==
    {<<MkOBO(o[1], <<0, 1>>, e[1][1], e[1][2]), MkOBO(o[2], <<1, 0>>, e[2][1], e[2][2])>> :
        o \in {<<MS, UO>>, <<UO, MS>>},
        e \in {e \in EdgeChoices(<<0, 1>>, most) \X EdgeChoices(<<1, 0>>, most) :
                 /\ SumCard(e[1][1]) + SumCard(e[1][2])
                      + SumCard(e[2][1]) + SumCard(e[2][2]) <= most
                 /\ SumCard(e[1][2]) + SumCard(e[2][2]) <= 1}}

\* the most header lines of an input file
MaxHeader == 2

\* the value of a header field
Tok(c) == <<c>>

\* header lines: version and date fields at the start of a line, after a
\* hyphenated key, after other text, with and without text after the token,
\* and a line with no field
HeaderLines ==
    {VersionKey \o Tok("1"),
     <<"f", "-">> \o VersionKey \o Tok("2"),
     <<"r", ":", " ">> \o VersionKey \o Tok("3"),
     <<"r", ":", " ">> \o VersionKey \o Tok("4") \o <<" ", "b">>,
     DateKey \o <<"5", ":", "6", " ", "7">>,
     <<" ">> \o DateKey \o Tok("8"),
     <<"x">> \o DateKey \o Tok("9"),
     DateKey,
     <<"z">>}

Headers == UNION {[1..n -> HeaderLines] : n \in 0..MaxHeader}

\* an input file with header lines
WithHeader(obo, header) ==
    [prefix |-> obo.prefix, header |-> header, terms |-> obo.terms]

\* runs of one file and of two, with every header considered (on the second
\* of two files: the first has one without fields)
HeaderInputs ==
    {<<WithHeader(MkOBO(p, <<1>>, NoEdges(<<1>>), NoEdges(<<1>>)), h)>> :
        p \in {MS, UO}, h \in Headers}
    \cup
    {<<WithHeader(MkOBO(o[1], <<1>>, NoEdges(<<1>>), NoEdges(<<1>>)), <<<<"z">>>>),
       WithHeader(MkOBO(o[2], <<0>>, NoEdges(<<0>>), NoEdges(<<0>>)), <<h>>)>> :
        o \in {<<MS, UO>>, <<UO, MS>>}, h \in HeaderLines}

GraphInputs == OneFileGraphs \cup TwoFileGraphs(MaxEdges)

LookupInputs == OrderInputs \cup TwoFileGraphs(1)

---------------------------------------------------------------------------
(* The arguments the accessors are called with *)

\* a code no term of any run considered has
NonTermCode == strtoul(<<"7">>).value

TermCodes == {cv_cpp.termInfos_[k].cvid : k \in 2..Len(cv_cpp.termInfos_)}

CodeArgs == TermCodes \cup {CVID_Unknown, NonTermCode}

AllTerms == UNION {{obos[i].terms[j] : j \in 1..Len(obos[i].terms)} : i \in 1..Len(obos)}

PrefixToks == {MS, UO, <<"X">>, <<>>}

\* second tokens that are not the seven digits of a term
OddToks ==
    {<<>>, <<"a">>, <<"7">>, <<"7", "a">>, <<"+", "7">>, <<" ", "7">>,
     <<"-", "1">>, <<"-">>}

\* the prefixes cv is called with: the two vocabularies and one no file has
PrefixArgs == {MS, UO, <<"X">>}

\* id strings of each outcome: every term's, an unknown prefix, a token that
\* is no number, no colon
IdArgsFew ==
    {IdString(t) : t \in AllTerms}
    \cup {<<"X", ":", "1">>, MS \o <<":", "a">>, UO \o <<":", "a">>, MS}

IdArgs ==
    {IdString(t) : t \in AllTerms}
    \cup {p \o <<":">> \o n : p \in PrefixToks, n \in OddToks}
    \cup PrefixToks
    \cup {<<":", ":">>, MS \o <<":", "7", ":", "7">>, UO \o <<":", ":", "7">>}

---------------------------------------------------------------------------
(* The state machine: a process that calls the accessors *)

\* the threads of the process that call the accessors
Threads == {1, 2}

\* a thread that has made no call yet
Idle == [at |-> "idle", k |-> 0]

NoCall ==
    [op |-> "none", cvid |-> CVID_Unknown, parent |-> CVID_Unknown, id |-> <<>>,
     prefix |-> <<>>, argv |-> <<>>]

NoRet ==
    [kind |-> "none", key |-> CVID_Unknown, info |-> DefaultCVTermInfo,
     flag |-> FALSE, list |-> <<>>, cv |-> DefaultCV, depth |-> 0]

InitFrom(inputs) ==
    /\ obos \in inputs
    /\ cv_hpp = writeHpp
    /\ EnumCompiles
    /\ cv_cpp = writeCpp
    /\ initialized_ = FALSE
    /\ infoMap_ = EmptyMap
    /\ cvMap_ = EmptyCVMap
    /\ cvids_ = <<>>
    /\ initRuns = 0
    /\ pc = [t \in Threads |-> Idle]
    /\ call = NoCall
    /\ ret = NoRet

Init == InitFrom(LookupInputs)

InitCV == InitFrom(HeaderInputs)

InitIsA == InitFrom(GraphInputs)

\* the caller is between two calls
Running == call.op = "none"

\* const CVTermInfo& cvTermInfo(CVID cvid)
cvTermInfo(cvid) ==
    /\ Running
    /\ initialized_' = TRUE
    /\ cvids_' = CvidsAfterInit
    /\ cvMap_' = CVMapAfterInit
    /\ initRuns' = RunsAfterInit
    /\ infoMap_' = Touch(MapAfterInit, cvid)
    /\ call' = [NoCall EXCEPT !.op = "cvTermInfo", !.cvid = cvid]
    /\ ret' = [NoRet EXCEPT !.kind = "info", !.key = cvid, !.info = infoMap_'[cvid]]
    /\ UNCHANGED <<obos, cv_hpp, cv_cpp, pc>>

\* const CVTermInfo& cvTermInfo(const string& id)
cvTermInfoId(id) ==
    \E r \in {LookupId(id)} :
       /\ Running
       /\ initialized_' = TRUE
       /\ cvids_' = CvidsAfterInit
       /\ cvMap_' = CVMapAfterInit
       /\ initRuns' = RunsAfterInit
       /\ infoMap_' = IF r.kind = "info" THEN Touch(MapAfterInit, r.key) ELSE MapAfterInit
       /\ call' = [NoCall EXCEPT !.op = "cvTermInfoId", !.id = id]
       /\ ret' = IF r.kind = "info"
                 THEN [NoRet EXCEPT !.kind = "info", !.key = r.key,
                                    !.info = infoMap_'[r.key]]
                 ELSE [NoRet EXCEPT !.kind = r.kind]
       /\ UNCHANGED <<obos, cv_hpp, cv_cpp, pc>>

\* bool cvIsA(CVID child, CVID parent): child == parent returns before any
\* call of cvTermInfo; otherwise cvTermInfo(child) initializes and the walk runs
cvIsA(child, parent) ==
    /\ Running
    /\ call' = [NoCall EXCEPT !.op = "cvIsA", !.cvid = child, !.parent = parent]
    /\ IF child = parent
       THEN UNCHANGED <<initialized_, infoMap_, cvMap_, cvids_, initRuns>>
       ELSE /\ initialized_' = TRUE
            /\ cvids_' = CvidsAfterInit
            /\ cvMap_' = CVMapAfterInit
            /\ initRuns' = RunsAfterInit
            /\ infoMap_' = Touch(MapAfterInit, child)
    /\ \E r \in {IsAWalk(infoMap_', child, parent, {})} :
          ret' = IF r = "diverges"
                 THEN [NoRet EXCEPT !.kind = "diverges"]
                 ELSE [NoRet EXCEPT !.kind = "bool", !.flag = (r = "true"),
                                    !.depth = IsADepth(infoMap_', child, parent, {})]
    /\ UNCHANGED <<obos, cv_hpp, cv_cpp, pc>>

\* const CV& cv(const string& prefix)
cv(prefix) ==
    /\ Running
    /\ initialized_' = TRUE
    /\ cvids_' = CvidsAfterInit
    /\ cvMap_' = TouchCV(CVMapAfterInit, prefix)
    /\ initRuns' = RunsAfterInit
    /\ infoMap_' = MapAfterInit
    /\ call' = [NoCall EXCEPT !.op = "cv", !.prefix = prefix]
    /\ ret' = [NoRet EXCEPT !.kind = "cv", !.cv = cvMap_'[prefix]]
    /\ UNCHANGED <<obos, cv_hpp, cv_cpp, pc>>

\* const vector<CVID>& cvids()
cvids ==
    /\ Running
    /\ initialized_' = TRUE
    /\ cvids_' = CvidsAfterInit
    /\ cvMap_' = CVMapAfterInit
    /\ initRuns' = RunsAfterInit
    /\ infoMap_' = MapAfterInit
    /\ call' = [NoCall EXCEPT !.op = "cvids"]
    /\ ret' = [NoRet EXCEPT !.kind = "cvids", !.list = CvidsAfterInit]
    /\ UNCHANGED <<obos, cv_hpp, cv_cpp, pc>>

\* the caller takes the result, or catches the exception, and goes on; a call
\* that never returns leaves nothing to run after it
Resume ==
    /\ call.op # "none"
    /\ ret.kind # "diverges"
    /\ call' = NoCall
    /\ ret' = NoRet
    /\ UNCHANGED <<obos, cv_hpp, cv_cpp, initialized_, infoMap_, cvMap_, cvids_, initRuns, pc>>

Next ==
    \/ \E c \in CodeArgs : cvTermInfo(c)
    \/ \E s \in IdArgs : cvTermInfoId(s)
    \/ \E c, p \in CodeArgs : cvIsA(c, p)
    \/ cvids
    \/ Resume

NextIsA ==
    \/ \E c \in CodeArgs : cvTermInfo(c)
    \/ \E c, p \in CodeArgs : cvIsA(c, p)
    \/ Resume

---------------------------------------------------------------------------
(* The generator process: main() from its start to its exit *)

\* no cv.cpp written
NoCpp ==
    [termInfos_             |-> <<>>,
     termInfoLiterals       |-> <<>>,
     cvMapAssignments       |-> <<>>,
     relationsIsA_          |-> <<>>,
     relationsPartOf_       |-> <<>>,
     relationsExactSynonym_ |-> <<>>,
     oboPrefixes_           |-> <<>>,
     enumBlockSize_         |-> 0]

\* the longest name of a term in the runs that differ in their texts
MaxText == 3

\* a letter, the backslash, two characters escape_copy looks for after a
\* backslash, and one it does not
TextChars == {"a", "\\", ":", "!", "n"}

Texts == UNION {[1..n -> TextChars] : n \in 0..MaxText}

\* the input file with term k replaced
SetTerm(obo, k, term) ==
    [prefix |-> obo.prefix, header |-> obo.header,
     terms  |-> [j \in 1..Len(obo.terms) |-> IF j = k THEN term ELSE obo.terms[j]]]

\* one file of one term of every name considered, whose definition is the
\* name followed by \:
TextInputs ==
    {<<SetTerm(MkOBO(MS, <<1>>, NoEdges(<<1>>), NoEdges(<<1>>)), 1,
               [MkTerm(MS, <<1>>, 1, NoEdges(<<1>>), NoEdges(<<1>>))
                   EXCEPT !.name = s, !.def = s \o <<"\\", ":">>])>> : s \in Texts}

\* two files of two terms each, a term having no, one or two exact synonyms
SynonymChoices == {<<>>, <<<<"p">>>>, <<<<"q">>, <<"p", "q">>>>}

SynonymInputs ==
    {<<SetTerm(MkOBO(o[1], <<0, 1>>, e[1], e[2]), 1,
               [MkTerm(o[1], <<0, 1>>, 1, e[1], e[2]) EXCEPT !.exactSynonyms = y[1]]),
       SetTerm(MkOBO(o[2], <<1, 0>>, e[2], e[1]), 2,
               [MkTerm(o[2], <<1, 0>>, 2, e[2], e[1]) EXCEPT !.exactSynonyms = y[2]])>> :
        o \in {<<MS, UO>>, <<UO, MS>>},
        y \in SynonymChoices \X SynonymChoices,
        e \in EdgeMaps(<<0, 1>>, 2) \X EdgeMaps(<<0, 1>>, 1)}

\* a file in which a term names a parent id that no term of the file has,
\* as is-a parent or as part-of parent; the other file has a term of that id
DanglingInputs ==
    {<<SetTerm(MkOBO(MS, <<1, 0>>, NoEdges(<<1, 0>>), NoEdges(<<1, 0>>)), k,
               [MkTerm(MS, <<1, 0>>, k, NoEdges(<<1, 0>>), NoEdges(<<1, 0>>))
                   EXCEPT !.parentsIsA = r[1], !.parentsPartOf = r[2]]),
       MkOBO(UO, <<enumBlockSize_ - 1>>, NoEdges(<<1>>), NoEdges(<<1>>))>> :
        k \in 1..2,
        r \in {<<<<enumBlockSize_ - 1>>, <<>>>>, <<<<>>, <<enumBlockSize_ - 1>>>>,
               <<<<0, enumBlockSize_ - 1>>, <<>>>>}}

\* the command lines considered; the empty one is cvgen run without a file
GenInputs ==
    {<<>>} \cup TextInputs \cup SynonymInputs \cup DanglingInputs \cup OrderInputs
    \cup OneFileGraphs

InitGen ==
    /\ obos \in GenInputs
    /\ cv_hpp = <<>>
    /\ cv_cpp = NoCpp
    /\ initialized_ = FALSE
    /\ infoMap_ = EmptyMap
    /\ cvMap_ = EmptyCVMap
    /\ cvids_ = <<>>
    /\ initRuns = 0
    /\ pc = [t \in Threads |-> Idle]
    /\ call = NoCall
    /\ ret = NoRet

\* some row of a relation table names a parent the term map does not hold
DerefsNull(tables) ==
    \/ \E j \in 1..Len(tables.relationsIsA_) : tables.relationsIsA_[j].second = NullDeref
    \/ \E j \in 1..Len(tables.relationsPartOf_) : tables.relationsPartOf_[j].second = NullDeref

\* main(), argc < 2: the usage text, return 1
mainUsage ==
    /\ call.op = "none"
    /\ obos = <<>>
    /\ call' = [NoCall EXCEPT !.op = "main"]
    /\ ret' = [NoRet EXCEPT !.kind = "exit1"]
    /\ UNCHANGED <<obos, cv_hpp, cv_cpp, initialized_, infoMap_, cvMap_, cvids_, initRuns, pc>>

\* main() up to the end of writeHpp(obos, "cv", exeDir)
mainWriteHpp ==
    /\ call.op = "none"
    /\ obos # <<>>
    /\ call' = [NoCall EXCEPT !.op = "main"]
    /\ cv_hpp' = writeHpp
    /\ UNCHANGED <<obos, cv_cpp, initialized_, infoMap_, cvMap_, cvids_, initRuns, pc, ret>>

\* writeCpp(obos, "cv", exeDir) and the rest of main(). No statement of
\* writeCpp throws. *termMaps[...][*jt] for an id the map does not hold is
\* the dereference of a null pointer: the process is killed there, with the
\* tables before that one written, or it goes on with whatever it read
mainWriteCpp ==
    /\ call.op = "main"
    /\ ret.kind = "none"
    /\ \E tables \in {writeCpp} :
          IF DerefsNull(tables)
          THEN \/ /\ cv_cpp' = [NoCpp EXCEPT !.termInfos_ = tables.termInfos_,
                                             !.termInfoLiterals = tables.termInfoLiterals]
                  /\ ret' = [NoRet EXCEPT !.kind = "SIGSEGV"]
               \/ /\ cv_cpp' = tables
                  /\ ret' = [NoRet EXCEPT !.kind = "exit0"]
          ELSE /\ cv_cpp' = tables
               /\ ret' = [NoRet EXCEPT !.kind = "exit0"]
    /\ UNCHANGED <<obos, cv_hpp, initialized_, infoMap_, cvMap_, cvids_, initRuns, pc, call>>

NextGen == mainUsage \/ mainWriteHpp \/ mainWriteCpp

SpecGen == InitGen /\ [][NextGen]_vars

---------------------------------------------------------------------------
(* main() from argv: the files are parsed one after the other into obos, then
   generateFiles writes cv.hpp and cv.cpp. OBO(argv[i]) reads the whole file
   and either returns the parsed file or throws. *)

\* the most files on a command line
MaxFiles == 2

\* a file that parses, with what the parser makes of it
Parsable(obo) == [outcome |-> "parsed", obo |-> obo]

\* a file OBO() throws on: an exception derived from std::exception, or another
Unparsable(kind) == [outcome |-> kind, obo |-> <<>>]

\* the files named on the command lines considered: two that parse and whose
\* references resolve, those with a reference that does not, and two that do
\* not parse
FileChoices ==
    {Parsable(MkOBO(MS, <<1>>, NoEdges(<<1>>), NoEdges(<<1>>))),
     Parsable(MkOBO(UO, <<0>>, NoEdges(<<0>>), NoEdges(<<0>>)))}
    \cup {Parsable(d[1]) : d \in DanglingInputs}
    \cup {Unparsable("exception"), Unparsable("unknown exception")}

ArgvInputs == UNION {[1..n -> FileChoices] : n \in 0..MaxFiles}

InitMain ==
    /\ obos = <<>>
    /\ cv_hpp = <<>>
    /\ cv_cpp = NoCpp
    /\ initialized_ = FALSE
    /\ infoMap_ = EmptyMap
    /\ cvMap_ = EmptyCVMap
    /\ cvids_ = <<>>
    /\ initRuns = 0
    /\ pc = [t \in Threads |-> Idle]
    /\ \E argv \in ArgvInputs : call = [NoCall EXCEPT !.op = "main", !.argv = argv]
    /\ ret = NoRet

\* main is running, before its return
InMain == call.op = "main" /\ ret.kind = "none"

\* main that returns 0 when no file is named
mainArgcCheckZero ==
    /\ InMain
    /\ call.argv = <<>>
    /\ ret' = [NoRet EXCEPT !.kind = "exit0"]
    /\ UNCHANGED <<obos, cv_hpp, cv_cpp, initialized_, infoMap_, cvMap_, cvids_, initRuns, pc,
                   call>>

\* if (argc < 2) { usage; return 1; }
mainArgcCheck ==
    /\ InMain
    /\ call.argv = <<>>
    /\ ret' = [NoRet EXCEPT !.kind = "exit1"]
    /\ UNCHANGED <<obos, cv_hpp, cv_cpp, initialized_, infoMap_, cvMap_, cvids_, initRuns, pc,
                   call>>

\* a loop that goes on to the next file when one does not parse
mainParseOBOLenient ==
    /\ InMain
    /\ Len(obos) < Len(call.argv)
    /\ cv_hpp = <<>>
    /\ LET file == call.argv[Len(obos) + 1]
       IN obos' = Append(obos, IF file.outcome = "parsed" THEN file.obo
                               ELSE [prefix |-> <<>>, terms |-> <<>>, header |-> <<>>])
    /\ UNCHANGED <<cv_hpp, cv_cpp, initialized_, infoMap_, cvMap_, cvids_, initRuns, pc,
                   call, ret>>

\* obos.push_back(OBO(argv[i])) for the next i; what OBO() throws is caught by
\* one of the two handlers of main, which both lead to return 1
mainParseOBO ==
    /\ InMain
    /\ Len(obos) < Len(call.argv)
    /\ cv_hpp = <<>>
    /\ LET file == call.argv[Len(obos) + 1]
       IN IF file.outcome = "parsed"
          THEN /\ obos' = Append(obos, file.obo)
               /\ ret' = ret
          ELSE /\ obos' = obos
               /\ ret' = [NoRet EXCEPT !.kind = "exit1"]
    /\ UNCHANGED <<cv_hpp, cv_cpp, initialized_, infoMap_, cvMap_, cvids_, initRuns, pc, call>>

\* generateFiles, its first statement: writeHpp(obos, basename, outputDir)
mainGenerateHpp ==
    /\ InMain
    /\ call.argv # <<>>
    /\ Len(obos) = Len(call.argv)
    /\ cv_hpp = <<>>
    /\ cv_hpp' = writeHpp
    /\ UNCHANGED <<obos, cv_cpp, initialized_, infoMap_, cvMap_, cvids_, initRuns, pc, call, ret>>

\* generateFiles, its second statement, and return 0
mainGenerateCpp ==
    /\ cv_hpp # <<>>
    /\ mainWriteCpp

NextMain == mainArgcCheck \/ mainParseOBO \/ mainGenerateHpp \/ mainGenerateCpp

SpecMain == InitMain /\ [][NextMain]_vars

---------------------------------------------------------------------------
(* Threads making their first accessor call: initialize() statement by
   statement. Nothing in the emitted file orders the threads, so the steps
   of two threads interleave freely, and a write to a container that another
   thread is writing too is a data race. *)

\* the statements of initialize() that write, in order: one per row of each
\* table, the assignments to cvMap_, and initialized_ = true
InitSteps ==
    [j \in 1..Len(cv_cpp.termInfos_) |-> [ph |-> "rows", j |-> j]]
    \o [j \in 1..Len(cv_cpp.relationsIsA_) |-> [ph |-> "isa", j |-> j]]
    \o [j \in 1..Len(cv_cpp.relationsPartOf_) |-> [ph |-> "partof", j |-> j]]
    \o [j \in 1..Len(cv_cpp.relationsExactSynonym_) |-> [ph |-> "syn", j |-> j]]
    \o <<[ph |-> "cvmap", j |-> 0], [ph |-> "flag", j |-> 0]>>

\* thread t is inside initialize(), at a statement of phase ph
AtStep(t, ph) ==
    /\ \A u \in Threads : pc[u].at # "crash"
    /\ pc[t].at = "init"
    /\ InitSteps[pc[t].k].ph = ph

\* another thread is inside initialize() as well
Racing(t) == \E u \in Threads \ {t} : pc[u].at = "init"

\* thread t goes on to its next statement
Advance(t) ==
    pc' = [pc EXCEPT ![t] = IF pc[t].k = Len(InitSteps)
                            THEN [at |-> "return", k |-> 0]
                            ELSE [at |-> "init", k |-> pc[t].k + 1]]

\* v.push_back(x) by thread t: appended, or, when another thread is pushing
\* onto the same vector, written into the slot that thread has just filled
Pushes(v, x, t) ==
    {Append(v, x)}
    \cup (IF Racing(t) /\ v # <<>> THEN {[v EXCEPT ![Len(v)] = x]} ELSE {})

\* the first statement of every accessor: if (!initialized_) initialize();
ThreadCall(t) ==
    /\ \A u \in Threads : pc[u].at # "crash"
    /\ pc[t].at = "idle"
    /\ pc' = [pc EXCEPT ![t] = IF initialized_ THEN [at |-> "return", k |-> 0]
                                ELSE [at |-> "init", k |-> 1]]
    /\ initRuns' = RunsAfterInit
    /\ UNCHANGED <<obos, cv_hpp, cv_cpp, initialized_, infoMap_, cvMap_, cvids_, call, ret>>

\* infoMap_[temp.cvid] = temp; cvids_.push_back(it->cvid);
LoadRowStep(t) ==
    /\ AtStep(t, "rows")
    /\ LET row == cv_cpp.termInfos_[InitSteps[pc[t].k].j]
       IN /\ infoMap_' = LoadTermInfos(infoMap_, <<row>>)
          /\ cvids_' \in Pushes(cvids_, row.cvid, t)
    /\ Advance(t)
    /\ UNCHANGED <<obos, cv_hpp, cv_cpp, initialized_, cvMap_, initRuns, call, ret>>

\* infoMap_[it->first].parentsIsA.push_back(it->second);
LoadIsAStep(t) ==
    /\ AtStep(t, "isa")
    /\ infoMap_' = LoadRelations(infoMap_, <<cv_cpp.relationsIsA_[InitSteps[pc[t].k].j]>>,
                                 "parentsIsA")
    /\ Advance(t)
    /\ UNCHANGED <<obos, cv_hpp, cv_cpp, initialized_, cvMap_, cvids_, initRuns, call, ret>>

\* infoMap_[it->first].parentsPartOf.push_back(it->second);
LoadPartOfStep(t) ==
    /\ AtStep(t, "partof")
    /\ infoMap_' = LoadRelations(infoMap_, <<cv_cpp.relationsPartOf_[InitSteps[pc[t].k].j]>>,
                                 "parentsPartOf")
    /\ Advance(t)
    /\ UNCHANGED <<obos, cv_hpp, cv_cpp, initialized_, cvMap_, cvids_, initRuns, call, ret>>

\* infoMap_[it->first].exactSynonyms.push_back(it->second);
LoadSynonymStep(t) ==
    /\ AtStep(t, "syn")
    /\ infoMap_' = LoadRelations(infoMap_,
                                 <<cv_cpp.relationsExactSynonym_[InitSteps[pc[t].k].j]>>,
                                 "exactSynonyms")
    /\ Advance(t)
    /\ UNCHANGED <<obos, cv_hpp, cv_cpp, initialized_, cvMap_, cvids_, initRuns, call, ret>>

\* the assignments cvMap_[...].<field> = "..."
LoadCVStep(t) ==
    /\ AtStep(t, "cvmap")
    /\ cvMap_' = LoadCVs(cvMap_, cv_cpp.cvMapAssignments)
    /\ Advance(t)
    /\ UNCHANGED <<obos, cv_hpp, cv_cpp, initialized_, infoMap_, cvids_, initRuns, call, ret>>

\* initialized_ = true;
SetInitialized(t) ==
    /\ AtStep(t, "flag")
    /\ initialized_' = TRUE
    /\ Advance(t)
    /\ UNCHANGED <<obos, cv_hpp, cv_cpp, infoMap_, cvMap_, cvids_, initRuns, call, ret>>

\* a write to a container another thread is writing: the process may die of it
RaceCrash(t) ==
    /\ \A u \in Threads : pc[u].at # "crash"
    /\ pc[t].at = "init"
    /\ InitSteps[pc[t].k].ph # "flag"
    /\ Racing(t)
    /\ pc' = [pc EXCEPT ![t] = [at |-> "crash", k |-> 0]]
    /\ UNCHANGED <<obos, cv_hpp, cv_cpp, initialized_, infoMap_, cvMap_, cvids_, initRuns,
                   call, ret>>

\* the accessor returns to the thread
ThreadReturn(t) ==
    /\ \A u \in Threads : pc[u].at # "crash"
    /\ pc[t].at = "return"
    /\ pc' = [pc EXCEPT ![t] = [at |-> "done", k |-> 0]]
    /\ UNCHANGED <<obos, cv_hpp, cv_cpp, initialized_, infoMap_, cvMap_, cvids_, initRuns,
                   call, ret>>

NextThreads ==
    \E t \in Threads :
        \/ ThreadCall(t)
        \/ LoadRowStep(t)
        \/ LoadIsAStep(t)
        \/ LoadPartOfStep(t)
        \/ LoadSynonymStep(t)
        \/ LoadCVStep(t)
        \/ SetInitialized(t)
        \/ RaceCrash(t)
        \/ ThreadReturn(t)

\* runs of one file of one term, with and without an is-a and a part-of
\* reference, and of two files
ThreadInputs ==
    {<<MkOBO(p, <<1>>, e[1], e[2])>> :
        p \in {MS, UO}, e \in EdgeMaps(<<1>>, 1) \X EdgeMaps(<<1>>, 1)}
    \cup {<<MkOBO(MS, <<1>>, NoEdges(<<1>>), NoEdges(<<1>>)),
            MkOBO(UO, <<0>>, NoEdges(<<0>>), NoEdges(<<0>>))>>}

InitThreads == InitFrom(ThreadInputs)

SpecThreads == InitThreads /\ [][NextThreads]_vars

\* every accessor, on the runs that differ in their headers
NextCV ==
    \/ \E p \in PrefixArgs : cv(p)
    \/ \E c \in CodeArgs : cvTermInfo(c)
    \/ \E s \in IdArgsFew : cvTermInfoId(s)
    \/ \E c, p \in CodeArgs : cvIsA(c, p)
    \/ cvids
    \/ Resume

Spec == Init /\ [][Next]_vars

SpecCV == InitCV /\ [][NextCV]_vars

SpecIsA == InitIsA /\ [][NextIsA]_vars

\* runs of one file or two, of one term each, of every local id considered
AccessionInputs ==
    {<<MkOBO(p, <<a>>, NoEdges(<<a>>), NoEdges(<<a>>))>> : p \in {MS, UO}, a \in IdSet}
    \cup
    {<<MkOBO(o[1], <<a>>, NoEdges(<<a>>), NoEdges(<<a>>)),
       MkOBO(o[2], <<b>>, NoEdges(<<b>>), NoEdges(<<b>>))>> :
        o \in {<<MS, UO>>, <<UO, MS>>}, a \in IdSet, b \in IdSet}

\* id strings of a loaded prefix and a number that strtoul converts: the local
\* id of a term, and that id plus enumBlockSize_
WideIdArgs ==
    {obos[i].prefix \o <<":">> \o Decimal(t.id + k * enumBlockSize_) :
        i \in 1..Len(obos), t \in AllTerms, k \in 0..1}

InitAccession == InitFrom(AccessionInputs)

\* a process that looks terms up by id string
NextAccession ==
    \/ \E s \in WideIdArgs : cvTermInfoId(s)
    \/ Resume

SpecAccession == InitAccession /\ [][NextAccession]_vars

---------------------------------------------------------------------------
(* What the properties below are stated with *)

\* the term of file i (from 1) at position a, and its place in the run
TermAt(i, a) == obos[i].terms[a]

TermPlaces == {<<i, a>> \in (1..Len(obos)) \X (1..MaxTerms) : a <= Len(obos[i].terms)}

\* the enumerator of a term in the emitted enum
CodeOf(t) == CVIDValue(enumName(t.prefix, t.name))

\* the global code of the data model: localId + blockSize * namespaceIndex
GlobalCode(i, id) == id + 100000000 * (i - 1)

LoadedPrefixes == {obos[i].prefix : i \in 1..Len(obos)}

Colons(s) == {k \in 1..Len(s) : s[k] = ":"}

\* the two tokens of an id string that holds exactly one colon
PrefixToken(s) == SubSeq(s, 1, (CHOOSE k \in Colons(s) : TRUE) - 1)

NumberToken(s) == SubSeq(s, (CHOOSE k \in Colons(s) : TRUE) + 1, Len(s))

\* the call made last was cvTermInfo(id) with a two-token id of a loaded prefix
LoadedPrefixCall ==
    /\ call.op = "cvTermInfoId"
    /\ Cardinality(Colons(call.id)) = 1
    /\ PrefixToken(call.id) \in LoadedPrefixes

\* the record the sentinel row of termInfos_ and the {CVID_Unknown, "Unknown"}
\* synonym row make
SentinelRecord ==
    [cvid |-> -1,
     id   |-> <<"?", "?", ":", "0", "0", "0", "0", "0", "0", "0">>,
     name |-> <<"C", "V", "I", "D", "_", "U", "n", "k", "n", "o", "w", "n">>,
     def  |-> <<"C", "V", "I", "D", "_", "U", "n", "k", "n", "o", "w", "n">>,
     parentsIsA |-> <<>>, parentsPartOf |-> <<>>,
     exactSynonyms |-> << <<"U", "n", "k", "n", "o", "w", "n">> >>]

---------------------------------------------------------------------------
(* Properties *)

\* C1: the code of a term is localId + blockSize * namespaceIndex with
\* blockSize = 100000000, the constant the emitted file holds; codes are
\* distinct over all terms of a run, div and mod by the emitted constant give
\* back (namespaceIndex, localId), and equal local ids in files i and j give
\* codes (j - i) * blockSize apart.
C1_GlobalCodes ==
    /\ cv_cpp.enumBlockSize_ = 100000000
    /\ \A p \in TermPlaces :
         LET t == TermAt(p[1], p[2])
             c == CodeOf(t)
         IN /\ c = t.id + cv_cpp.enumBlockSize_ * (p[1] - 1)
            /\ c \div cv_cpp.enumBlockSize_ = p[1] - 1
            /\ c % cv_cpp.enumBlockSize_ = t.id
            /\ \A q \in TermPlaces :
                 LET u == TermAt(q[1], q[2])
                     d == CodeOf(u)
                 IN /\ c = d => p = q
                    /\ t.id = u.id => d - c = (q[1] - p[1]) * cv_cpp.enumBlockSize_

\* two files that both hold the largest local id below the block size
C1_Witness ==
    /\ Len(obos) = 2
    /\ \E p, q \in TermPlaces :
         /\ p[1] = 1 /\ q[1] = 2
         /\ TermAt(p[1], p[2]).id = 99999999
         /\ TermAt(q[1], q[2]).id = 99999999

\* C2: for every term T, cvTermInfo(T.idString) returns a record whose name
\* is T.name, cvTermInfo(T.globalCode) returns a record whose def is T.def,
\* and both return the same record, the one the map holds under T's code.
C2_TermLookup ==
    \A p \in TermPlaces :
       LET t    == TermAt(p[1], p[2])
           code == GlobalCode(p[1], t.id)
       IN /\ (call.op = "cvTermInfoId"
                /\ call.id = t.prefix \o <<":">> \o PadLeft(Decimal(t.id), 7, "0"))
             => /\ ret.kind = "info"
                /\ ret.key = code
                /\ ret.info = infoMap_[code]
                /\ ret.info.name = t.name
                /\ ret.info.def = t.def
          /\ (call.op = "cvTermInfo" /\ call.cvid = code)
             => /\ ret.kind = "info"
                /\ ret.key = code
                /\ ret.info = infoMap_[code]
                /\ ret.info.name = t.name
                /\ ret.info.def = t.def

\* the id string of a term of the second file, whose text holds an escape, was looked up
C2_Witness ==
    /\ call.op = "cvTermInfoId"
    /\ ret.kind = "info"
    /\ \E p \in TermPlaces :
         /\ p[1] = 2
         /\ call.id = IdString(TermAt(p[1], p[2]))
         /\ \E k \in 1..Len(ret.info.def) : ret.info.def[k] = "\\"

\* the call made last was cvTermInfo(c) for a code c that no term has and
\* that is not CVID_Unknown
UnrecognizedCodeCall ==
    /\ call.op = "cvTermInfo"
    /\ call.cvid # -1
    /\ \A p \in TermPlaces : call.cvid # GlobalCode(p[1], TermAt(p[1], p[2]).id)

\* C3 as stated: for a code that is no term's and is not the sentinel,
\* cvTermInfo(c) returns the same record as cvTermInfo(CVID_Unknown), the one
\* populated from the sentinel row.
C3_UnrecognizedCodeGivesSentinelRecord ==
    UnrecognizedCodeCall =>
        /\ ret.kind = "info"
        /\ ret.info = infoMap_[-1]
        /\ ret.info = SentinelRecord

\* C3, amended: for such a code c, cvTermInfo(c) returns the record the map
\* then holds under c itself: its cvid is CVID_Unknown, as the sentinel
\* record's is, and its id string, name, definition, parents and synonyms are
\* empty, which the sentinel record's id string, name, definition and
\* synonyms are not.
C3_UnrecognizedCodeGivesEmptyRecord ==
    UnrecognizedCodeCall =>
        /\ ret.kind = "info"
        /\ ret.key = call.cvid
        /\ ret.info = infoMap_[call.cvid]
        /\ ret.info.cvid = -1
        /\ ret.info.cvid = infoMap_[-1].cvid
        /\ ret.info.id = <<>> /\ ret.info.name = <<>> /\ ret.info.def = <<>>
        /\ ret.info.parentsIsA = <<>> /\ ret.info.parentsPartOf = <<>>
        /\ ret.info.exactSynonyms = <<>>
        /\ infoMap_[-1] = SentinelRecord

\* cvTermInfo(7) has returned in a run where 7 is no term's code
C3_Witness ==
    /\ UnrecognizedCodeCall
    /\ call.cvid = NonTermCode
    /\ initialized_
    /\ ret.kind = "info"

\* C4: for an id string of exactly two tokens whose first token is the prefix
\* of no loaded file, cvTermInfo(id) does not fail and returns the record of
\* CVID_Unknown, whatever the second token is.
C4_UnknownPrefixGivesSentinel ==
    (/\ call.op = "cvTermInfoId"
     /\ Cardinality(Colons(call.id)) = 1
     /\ PrefixToken(call.id) \notin LoadedPrefixes)
    => /\ ret.kind = "info"
       /\ ret.key = -1
       /\ ret.info = infoMap_[-1]
       /\ ret.info = SentinelRecord

\* cvTermInfo("X:a") has returned: a prefix no file has, a token that is no number
C4_Witness ==
    /\ call.op = "cvTermInfoId"
    /\ call.id = <<"X", ":", "a">>
    /\ ret.kind = "info"

\* C5: cvTermInfo(id) ends in the error of the split (runtime_error), and
\* returns no record, exactly when id does not split at its colons into two
\* tokens, that is when it holds no colon or more than one, whatever its
\* tokens are (a loaded prefix or not, a number or not).
C5_SplitErrorIffNotTwoTokens ==
    call.op = "cvTermInfoId" =>
        (ret.kind = "runtime_error" <=> Cardinality(Colons(call.id)) # 1)

\* cvTermInfo("MS:7:7") has failed in a run that loads MS: a loaded prefix
\* and a number, and one colon too many
C5_Witness ==
    /\ call.op = "cvTermInfoId"
    /\ call.id = <<"M", "S", ":", "7", ":", "7">>
    /\ <<"M", "S">> \in LoadedPrefixes
    /\ ret.kind = "runtime_error"

\* a token strtoul reads no number from: empty, a first character that is
\* no digit, sign or white space, or a sign alone
NoNumber(tok) ==
    \/ tok = <<>>
    \/ ~(IsDigit(tok[1]) \/ tok[1] \in {"+", "-", " ", "\t", "\n"})
    \/ (Len(tok) = 1 /\ tok[1] \in {"+", "-"})

\* C6: for an id string with a loaded prefix whose second token yields no
\* number at all, cvTermInfo(id) fails with the conversion error
\* (bad_lexical_cast) and returns no record.
C6_NoNumberThrows ==
    (LoadedPrefixCall /\ NoNumber(NumberToken(call.id)))
    => ret.kind = "bad_lexical_cast"

\* cvTermInfo("MS:a") has failed in a run that loads MS
C6_Witness ==
    /\ LoadedPrefixCall
    /\ call.id = <<"M", "S", ":", "a">>
    /\ ret.kind = "bad_lexical_cast"

\* C7: for an id string with a loaded prefix, cvTermInfo(id) fails with the
\* conversion error whenever the second token holds anything but digits
\* (characters after the digits, a sign); it never converts such a token to
\* some number.
C7_NonNumericThrows ==
    (/\ LoadedPrefixCall
     /\ \E k \in 1..Len(NumberToken(call.id)) : ~IsDigit(NumberToken(call.id)[k]))
    => ret.kind = "bad_lexical_cast"

\* cvTermInfo("MS:7a") has returned a record in a run that loads MS
C7_Reached ==
    /\ LoadedPrefixCall
    /\ call.id = <<"M", "S", ":", "7", "a">>
    /\ ret.kind = "info"

\* the terms that name themselves among their is-a parents
SelfParents ==
    {p \in TermPlaces :
        \E k \in 1..Len(TermAt(p[1], p[2]).parentsIsA) :
            TermAt(p[1], p[2]).parentsIsA[k] = TermAt(p[1], p[2]).id}

\* C8: cvIsA(x, x) returns true for every code x, a term's or not, on any
\* is-a graph and whether initialize() has run or not.
C8_IsAReflexive ==
    (call.op = "cvIsA" /\ call.cvid = call.parent)
    => (ret.kind = "bool" /\ ret.flag)

\* cvIsA(x, x) has returned true before anything was initialized, for a term
\* x that is its own is-a parent
C8_Witness ==
    /\ call.op = "cvIsA"
    /\ call.cvid = call.parent
    /\ ~initialized_
    /\ ret.kind = "bool" /\ ret.flag
    /\ \E p \in SelfParents : call.cvid = GlobalCode(p[1], TermAt(p[1], p[2]).id)

\* the references of the input files of one kind ("parentsIsA" or
\* "parentsPartOf"), as pairs <<child code, parent code>>
EdgesOf(field) ==
    UNION {{<<GlobalCode(p[1], TermAt(p[1], p[2]).id),
              GlobalCode(p[1], TermAt(p[1], p[2])[field][k])>> :
               k \in 1..Len(TermAt(p[1], p[2])[field])} : p \in TermPlaces}

\* the codes reached from the codes S over the edges E, S included
RECURSIVE ReachFrom(_, _)
ReachFrom(E, S) ==
    LET n == S \cup {e[2] : e \in {d \in E : d[1] \in S}}
    IN IF n = S THEN S ELSE ReachFrom(E, n)

\* no code is reached from one of its own parents
Acyclic(E) == \A e \in E : e[1] \notin ReachFrom(E, {e[2]})

\* C9: on an acyclic is-a graph, cvIsA(child, parent) returns, and returns true
\* exactly when parent is reached from child over zero or more is-a
\* references; part-of references have no part in it.
C9_IsAIsClosure ==
    call.op = "cvIsA" =>
        \E E \in {EdgesOf("parentsIsA")} :
            Acyclic(E) =>
                /\ ret.kind = "bool"
                /\ ret.flag <=> (call.parent \in ReachFrom(E, {call.cvid}))

\* cvIsA(A, C) has returned true where A is-a B, B is-a C, C is no direct
\* parent of A, and the files hold a part-of reference too
C9_Witness ==
    /\ call.op = "cvIsA"
    /\ ret.kind = "bool" /\ ret.flag
    /\ EdgesOf("parentsPartOf") # {}
    /\ \E E \in {EdgesOf("parentsIsA")} :
          /\ Acyclic(E)
          /\ <<call.cvid, call.parent>> \notin E
          /\ \E b \in {e[2] : e \in E} :
                <<call.cvid, b>> \in E /\ <<b, call.parent>> \in E

\* the codes of the terms in generation order: files in input order, terms in
\* source order
RECURSIVE TermCodeSeq(_)
TermCodeSeq(i) ==
    IF i > Len(obos) THEN <<>>
    ELSE [k \in 1..Len(obos[i].terms) |-> GlobalCode(i, obos[i].terms[k].id)]
         \o TermCodeSeq(i + 1)

\* C10: cvids() returns exactly the codes of the terms, one entry a term, in
\* generation order, and no entry that is no term's code.
C10_CvidsAreTermCodes ==
    call.op = "cvids" => (ret.kind = "cvids" /\ ret.list = TermCodeSeq(1))

\* what cvids() returns: CVID_Unknown first, then the codes of the terms
C10_Reached ==
    /\ call.op = "cvids"
    /\ Len(obos) = 2
    /\ ret.list = <<-1>> \o TermCodeSeq(1)

\* C11: cv(prefix) never fails; for the prefix of a loaded file it returns a
\* record whose id is the prefix and whose version is the one extracted from
\* that file's header; for any other prefix it returns a record whose id, URI,
\* fullName and version are all empty.
C11_CvOfPrefix ==
    call.op = "cv" =>
        /\ ret.kind = "cv"
        /\ \A i \in 1..Len(obos) :
              obos[i].prefix = call.prefix =>
                  /\ ret.cv.id = call.prefix
                  /\ ret.cv.version = ExtractVersion(obos[i].header)
        /\ call.prefix \notin LoadedPrefixes => ret.cv = DefaultCV

\* cv("UO") has returned the name and address of the Unit Ontology, with no
\* id and no version, in a run that loads MS only
C11_Reached ==
    /\ call.op = "cv"
    /\ call.prefix = UO
    /\ LoadedPrefixes = {MS}
    /\ ret.cv = [id |-> <<>>, fullName |-> UOFullName, URI |-> UOURI, version |-> <<>>]

\* how many rows of the pair table tbl have the code c first
PairsOf(tbl, c) == Cardinality({j \in 1..Len(tbl) : tbl[j].first = c})

\* C12: when threads make their first accessor call concurrently, the body of
\* initialize() fills the maps at most once: no row of the term table is
\* pushed onto cvids_ twice, and no is-a, part-of or synonym pair is appended
\* to a record twice.
C12_PopulatedAtMostOnce ==
    /\ initRuns <= 1
    /\ Len(cvids_) <= Len(cv_cpp.termInfos_)
    /\ \A c \in DOMAIN infoMap_ :
          /\ Len(infoMap_[c].parentsIsA) <= PairsOf(cv_cpp.relationsIsA_, c)
          /\ Len(infoMap_[c].parentsPartOf) <= PairsOf(cv_cpp.relationsPartOf_, c)
          /\ Len(infoMap_[c].exactSynonyms) <= PairsOf(cv_cpp.relationsExactSynonym_, c)

\* both threads have returned from their first call, initialize() has run
\* twice, cvids_ holds every row twice and a term holds its synonym twice
C12_Reached ==
    /\ \A t \in Threads : pc[t].at = "done"
    /\ initRuns = 2
    /\ cvids_ = InitialCvids \o InitialCvids
    /\ \E c \in DOMAIN infoMap_ :
          c # -1 /\ Len(infoMap_[c].exactSynonyms) = 2 * PairsOf(cv_cpp.relationsExactSynonym_, c)
                 /\ infoMap_[c].exactSynonyms # <<>>

\* the maps and the list hold what one run of initialize() puts into them:
\* every row once, every record with its parents and synonyms, every CV
BuiltOnce ==
    /\ initialized_
    /\ initRuns = 1
    /\ cvids_ = InitialCvids
    /\ \A c \in DOMAIN InitialInfoMap : c \in DOMAIN infoMap_ /\ infoMap_[c] = InitialInfoMap[c]
    /\ \A p \in DOMAIN InitialCVMap : p \in DOMAIN cvMap_ /\ cvMap_[p] = InitialCVMap[p]

\* C13 as stated: in a single thread, the first call of any accessor, cvIsA
\* included, builds the maps, and initialize() runs no second time, also
\* after a call that ended in an error.
C13_AnyFirstCallBuilds ==
    /\ initRuns <= 1
    /\ call.op # "none" => BuiltOnce

\* C13, amended: in a single thread the maps are built by the first call of
\* cv, of cvTermInfo (either overload, also when it ends in an error), of
\* cvids, or of cvIsA with child # parent; cvIsA(x, x) returns without
\* building them; and initialize() never runs a second time.
C13_FirstCallBuildsOnce ==
    /\ initRuns <= 1
    /\ initialized_ <=> (initRuns = 1)
    /\ initialized_ => BuiltOnce
    /\ (call.op \in {"cv", "cvTermInfo", "cvTermInfoId", "cvids"}
        \/ (call.op = "cvIsA" /\ call.cvid # call.parent)) => BuiltOnce
    /\ (~initialized_ /\ call.op # "none") => (call.op = "cvIsA" /\ call.cvid = call.parent)

\* cvTermInfo("MS") has ended in the split error, as a call made after
\* cv("X"), and the maps are as initialize() built them the one time
C13_Witness ==
    /\ call.op = "cvTermInfoId"
    /\ ret.kind = "runtime_error"
    /\ <<"X">> \in DOMAIN cvMap_
    /\ BuiltOnce

\* C14: once initialization has completed, no accessor call changes the
\* shared lookup state: the keys and records of infoMap_, the keys and
\* records of cvMap_, and cvids_ are after the call what they were before it.
C14_ReadOnlyAfterInit ==
    [][initialized_ => (infoMap_' = infoMap_ /\ cvMap_' = cvMap_ /\ cvids_' = cvids_)]_vars

\* the maps after cvTermInfo of a code no term has and cv of a prefix no file
\* has: each holds a key that initialize() did not put there
C14_Reached ==
    /\ initialized_
    /\ NonTermCode \in DOMAIN infoMap_ /\ NonTermCode \notin DOMAIN InitialInfoMap
    /\ <<"X">> \in DOMAIN cvMap_ /\ <<"X">> \notin DOMAIN InitialCVMap

\* the places of a line where a version field starts: "version: " at the
\* start of the line or after a character that is no hyphen, with a token
\* after it
VersionFieldAt(line) ==
    {k \in 1..(Len(line) - Len(VersionKey)) :
        /\ SubSeq(line, k, k + Len(VersionKey) - 1) = VersionKey
        /\ (k = 1 \/ line[k - 1] # "-")
        /\ ~IsSpace(line[k + Len(VersionKey)])}

\* the token after the first version field of a line
VersionFieldToken(line) ==
    LeadingToken(SubSeq(line, (CHOOSE k \in VersionFieldAt(line) :
                                  \A j \in VersionFieldAt(line) : k <= j) + Len(VersionKey),
                        Len(line)))

\* the version of a header as C15 words it: the token of the first line with
\* a version field; failing that the token of the first date line; failing
\* that "unknown"
StatedVersion(header) ==
    LET vs == {i \in 1..Len(header) : VersionFieldAt(header[i]) # {}}
        ds == {i \in 1..Len(header) : MatchDate(header[i]).matched}
    IN IF vs # {} THEN VersionFieldToken(header[CHOOSE i \in vs : \A j \in vs : i <= j])
       ELSE IF ds # {} THEN MatchDate(header[CHOOSE i \in ds : \A j \in ds : i <= j]).what
       ELSE <<"u", "n", "k", "n", "o", "w", "n">>

\* C15: the version of a namespace is the token following "version: " on the
\* first header line that carries a version field, even when a date line
\* comes earlier; otherwise the first token following "date: " on the first
\* date line; otherwise "unknown". "version:" as the tail of a hyphenated key
\* is no version field; a literal `version: <token>` line is one.
C15_VersionOfHeader ==
    call.op = "cv" =>
        \A i \in 1..Len(obos) :
            obos[i].prefix = call.prefix =>
                ret.cv.version = StatedVersion(obos[i].header)

\* cv("MS") has returned the version "unknown" for a file whose header is the
\* one line "version: 1"
C15_Reached ==
    /\ call.op = "cv"
    /\ call.prefix = MS
    /\ Len(obos) = 1
    /\ obos[1].prefix = MS
    /\ obos[1].header = <<VersionKey \o Tok("1")>>
    /\ ret.cv.version = <<"u", "n", "k", "n", "o", "w", "n">>

\* the row of the term table that term j of file i is written to
RECURSIVE TermsBefore(_)
TermsBefore(i) == IF i = 1 THEN 0 ELSE TermsBefore(i - 1) + Len(obos[i - 1].terms)

RowOf(i, j) == 1 + TermsBefore(i) + j

\* the places of a text where a backslash stands before one of ! : , ( ) [ ] { }
EscapePlaces(s) ==
    {k \in 1..(Len(s) - 1) :
        s[k] = "\\" /\ s[k + 1] \in {"!", ":", ",", "(", ")", "[", "]", "{", "}"}}

\* a text with one more backslash before each of these places, every other
\* character unchanged and in place
RECURSIVE Doubled(_, _)
Doubled(s, k) ==
    IF k > Len(s) THEN <<>>
    ELSE (IF k \in EscapePlaces(s) THEN <<"\\", "\\">> ELSE <<s[k]>>) \o Doubled(s, k + 1)

\* main() has written both files and returned 0
Generated == call.op = "main" /\ ret.kind = "exit0"

\* C16: in the emitted term table the name and the definition of every term
\* are the source strings with each backslash that stands before one of
\* ! : , ( ) [ ] { } written twice and every other character unchanged and
\* in place, so that the emitted text is longer than the source by the
\* number of these places.
C16_EscapeDoublesBackslash ==
    Generated =>
        \A p \in TermPlaces :
            LET t == TermAt(p[1], p[2])
                w == cv_cpp.termInfoLiterals[RowOf(p[1], p[2])]
            IN /\ w.name = Doubled(t.name, 1)
               /\ w.def = Doubled(t.def, 1)
               /\ Len(w.name) = Len(t.name) + Cardinality(EscapePlaces(t.name))
               /\ Len(w.def) = Len(t.def) + Cardinality(EscapePlaces(t.def))

\* the files are written for a term named \:a whose definition is \:a\: and
\* the table has \\:a and \\:a\\:
C16_Witness ==
    /\ Generated
    /\ Len(obos) = 1
    /\ obos[1].terms[1].name = <<"\\", ":", "a">>
    /\ cv_cpp.termInfoLiterals[2].name = <<"\\", "\\", ":", "a">>
    /\ cv_cpp.termInfoLiterals[2].def = <<"\\", "\\", ":", "a", "\\", "\\", ":">>

\* how many enumerators a term is to have: one, and for a term of MS one
\* more for each exact synonym
EnumeratorsOf(t) == 1 + (IF t.prefix = <<"M", "S">> THEN Len(t.exactSynonyms) ELSE 0)

\* how many enumerators come before the one of term j of file i
RECURSIVE EnumeratorsBefore(_, _)
EnumeratorsBefore(i, j) ==
    IF j > 1 THEN EnumeratorsBefore(i, j - 1) + EnumeratorsOf(obos[i].terms[j - 1])
    ELSE IF i > 1 THEN EnumeratorsBefore(i - 1, Len(obos[i - 1].terms) + 1)
    ELSE 1

\* C17: the emitted enumeration holds CVID_Unknown = -1, then one enumerator
\* for every term, valued with the term's global code, and, for the terms of
\* prefix "MS" only, one more for every exact synonym, directly after the
\* term's and written as an alias of it; nothing else.
C17_EnumHoldsTermsAndMSSynonyms ==
    cv_hpp # <<>> =>
        /\ cv_hpp[1] = [name |-> UnknownName, alias |-> FALSE, target |-> <<>>, value |-> -1]
        /\ Len(cv_hpp) = EnumeratorsBefore(Len(obos), Len(obos[Len(obos)].terms) + 1)
        /\ \A p \in TermPlaces :
              LET t == TermAt(p[1], p[2])
                  a == EnumeratorsBefore(p[1], p[2]) + 1
              IN /\ cv_hpp[a].name = enumName(t.prefix, t.name)
                 /\ ~cv_hpp[a].alias
                 /\ cv_hpp[a].value = GlobalCode(p[1], t.id)
                 /\ \A k \in 1..(EnumeratorsOf(t) - 1) :
                       /\ cv_hpp[a + k].alias
                       /\ cv_hpp[a + k].name = enumName(t.prefix, t.exactSynonyms[k])
                       /\ cv_hpp[a + k].target = cv_hpp[a].name
                       /\ CVIDValue(cv_hpp[a + k].name) = cv_hpp[a].value

\* cv.hpp is written for UO and MS, in this order, every term having exact
\* synonyms: after the sentinel the two UO terms have one enumerator each,
\* the MS terms theirs followed by one alias and by two
C17_Witness ==
    /\ cv_hpp # <<>>
    /\ Len(obos) = 2
    /\ obos[1].prefix = <<"U", "O">>
    /\ Len(obos[1].terms[1].exactSynonyms) = 2
    /\ Len(obos[2].terms[1].exactSynonyms) = 1
    /\ Len(obos[2].terms[2].exactSynonyms) = 2
    /\ Len(cv_hpp) = 1 + 2 + 2 + 3
    /\ ~cv_hpp[2].alias /\ ~cv_hpp[3].alias /\ ~cv_hpp[4].alias /\ cv_hpp[5].alias
    /\ ~cv_hpp[6].alias /\ cv_hpp[7].alias /\ cv_hpp[8].alias

\* the codes of the terms of prefix "MS"
MSCodes ==
    {GlobalCode(p[1], TermAt(p[1], p[2]).id) :
        p \in {q \in TermPlaces : TermAt(q[1], q[2]).prefix = <<"M", "S">>}}

\* C18: the emitted synonym table holds a pair only for terms of prefix "MS":
\* a term of another file that has exact synonyms has no pair, and its record
\* has an empty exactSynonyms list once the maps are initialized.
C18_SynonymPairsOfMSOnly ==
    /\ \A j \in 2..Len(cv_cpp.relationsExactSynonym_) :
          cv_cpp.relationsExactSynonym_[j].first \in MSCodes
    /\ initialized_ =>
          \A p \in TermPlaces :
              TermAt(p[1], p[2]).prefix # <<"M", "S">> =>
                  infoMap_[GlobalCode(p[1], TermAt(p[1], p[2]).id)].exactSynonyms = <<>>

\* cvTermInfo("UO:0000001") has returned a record holding the exact synonym
\* of that term
C18_Reached ==
    /\ call.op = "cvTermInfoId"
    /\ call.id = <<"U", "O", ":", "0", "0", "0", "0", "0", "0", "1">>
    /\ ret.kind = "info"
    /\ ret.info.exactSynonyms = <<<<"u">>>>
    /\ \E j \in 2..Len(cv_cpp.relationsExactSynonym_) :
          cv_cpp.relationsExactSynonym_[j] = [first |-> ret.info.cvid, second |-> <<"u">>]

\* how many rows of a table come before those of term j of file i, when
\* the table starts with first rows of its own and every term has one row for
\* each entry of its list field
RECURSIVE RowsBefore(_, _, _, _)
RowsBefore(field, first, i, j) ==
    IF j > 1 THEN RowsBefore(field, first, i, j - 1) + Len(obos[i].terms[j - 1][field])
    ELSE IF i > 1 THEN RowsBefore(field, first, i - 1, Len(obos[i - 1].terms) + 1)
    ELSE first

\* the rows of a pair table are those of the list field of the terms, in
\* (file, term, entry) order, each the code of the term and the code of the
\* parent it names
ParentRowsInOrder(tbl, field) ==
    /\ Len(tbl) = RowsBefore(field, 0, Len(obos), Len(obos[Len(obos)].terms) + 1)
    /\ \A p \in TermPlaces :
          LET t == TermAt(p[1], p[2])
          IN \A k \in 1..Len(t[field]) :
                tbl[RowsBefore(field, 0, p[1], p[2]) + k]
                   = [first |-> GlobalCode(p[1], t.id), second |-> GlobalCode(p[1], t[field][k])]

\* main() has ended on a command line that names a file
Finished == call.op = "main" /\ ret.kind # "none" /\ obos # <<>>

\* C19: the emitted tables are a function of the ordered list of input files,
\* and their rows follow source order, unsorted: term rows in (file, term)
\* order after the sentinel row, is-a, part-of and synonym rows in (file,
\* term, entry of the term's list) order.
C19_TablesInSourceOrder ==
    Finished =>
        /\ Len(cv_cpp.termInfos_) = RowOf(Len(obos), Len(obos[Len(obos)].terms))
        /\ cv_cpp.termInfos_[1] = SentinelRow
        /\ \A p \in TermPlaces :
              /\ cv_cpp.termInfos_[RowOf(p[1], p[2])].cvid
                    = GlobalCode(p[1], TermAt(p[1], p[2]).id)
              /\ cv_cpp.termInfos_[RowOf(p[1], p[2])].id = IdString(TermAt(p[1], p[2]))
              /\ cv_cpp.termInfoLiterals[RowOf(p[1], p[2])].name
                    = escape_copy(TermAt(p[1], p[2]).name)
        /\ ParentRowsInOrder(cv_cpp.relationsIsA_, "parentsIsA")
        /\ ParentRowsInOrder(cv_cpp.relationsPartOf_, "parentsPartOf")
        /\ Len(cv_cpp.relationsExactSynonym_)
              = RowsBefore("exactSynonyms", 1, Len(obos), Len(obos[Len(obos)].terms) + 1)
        /\ \A p \in TermPlaces :
              \A k \in 1..Len(TermAt(p[1], p[2]).exactSynonyms) :
                 cv_cpp.relationsExactSynonym_[RowsBefore("exactSynonyms", 1, p[1], p[2]) + k]
                    = [first  |-> GlobalCode(p[1], TermAt(p[1], p[2]).id),
                       second |-> TermAt(p[1], p[2]).exactSynonyms[k]]
        /\ cv_cpp.oboPrefixes_ = [i \in 1..Len(obos) |-> obos[i].prefix]

\* some term names a parent id that no term of its file has
HasDangling ==
    \E p \in TermPlaces : \E field \in {"parentsIsA", "parentsPartOf"} :
       \E k \in 1..Len(TermAt(p[1], p[2])[field]) :
          \A a \in 1..Len(obos[p[1]].terms) :
             obos[p[1]].terms[a].id # TermAt(p[1], p[2])[field][k]

\* the same command line, on which a term names a parent its file does not
\* have, has ended with the relation tables not written
C19_Reached ==
    /\ Finished
    /\ HasDangling
    /\ ret.kind = "SIGSEGV"
    /\ cv_cpp.relationsIsA_ = <<>>
    /\ Len(obos[1].terms[1].parentsIsA) + Len(obos[1].terms[2].parentsIsA) > 0

\* and has ended with tables holding what was read through the null pointer
C19_ReachedGarbage ==
    /\ Finished
    /\ HasDangling
    /\ ret.kind = "exit0"
    /\ DerefsNull(cv_cpp)

\* where every parent named is a term of the same file the tables are that
\* function of the input, in source order
C19_SourceOrderWhereResolved ==
    (Finished /\ ~HasDangling) => C19_TablesInSourceOrder

\* the files are written for UO then MS, the terms of MS being 1 then 0 in
\* the source: the rows of MS come after those of UO and the row of
\* MS:0000001 before that of MS:0000000, and the is-a table has two rows
C19_SourceOrderReached ==
    /\ Finished
    /\ Len(obos) = 2
    /\ obos[1].prefix = <<"U", "O">>
    /\ Len(obos[1].terms) = 2 /\ Len(obos[2].terms) = 2
    /\ obos[2].terms[1].id = 1 /\ obos[2].terms[2].id = 0
    /\ cv_cpp.termInfos_[4].cvid = 100000001
    /\ cv_cpp.termInfos_[5].cvid = 100000000
    /\ Len(cv_cpp.relationsIsA_) = 2
    /\ cv_cpp.relationsIsA_[1].first < cv_cpp.relationsIsA_[2].first

\* C20: a parent id that is not the id of a term of the same file makes
\* generation fail with a reported error and exit code 1, without going
\* past the reference and without an unreported crash.
C20_DanglingReferenceFailsFast ==
    (Finished /\ HasDangling) =>
        /\ ret.kind = "exit1"
        /\ cv_cpp = NoCpp

\* a run on a file whose term names an is-a parent the file does not have
\* is killed inside writeCpp, cv.hpp being written already
C20_Reached ==
    /\ Finished
    /\ HasDangling
    /\ ret.kind = "SIGSEGV"
    /\ cv_hpp # <<>>
    /\ cv_cpp.termInfos_ # <<>>

\* main has returned, or the process has been killed
MainEnded == call.op = "main" /\ ret.kind # "none"

\* the files of the command line that do not parse
BadFiles == {k \in 1..Len(call.argv) : call.argv[k].outcome # "parsed"}

\* no byte of cv.hpp or cv.cpp has been written
NothingWritten == cv_hpp = <<>> /\ cv_cpp = NoCpp

\* C21: a run that ends in a generation-time error, a file that does not
\* parse or a parent reference that does not resolve, has produced no
\* artifact: neither cv.hpp nor cv.cpp exists, whole or in part.
C21_NoArtifactOnError ==
    (MainEnded /\ call.argv # <<>> /\ ret.kind \in {"exit1", "SIGSEGV"}) => NothingWritten

\* two files were parsed, a term of the first names an is-a parent the file
\* does not have, and the run has ended inside writeCpp with cv.hpp whole and
\* the term table of cv.cpp written
C21_Reached ==
    /\ MainEnded
    /\ Len(call.argv) = 2
    /\ Len(obos) = 2
    /\ HasDangling
    /\ ret.kind = "SIGSEGV"
    /\ cv_hpp = writeHpp
    /\ Len(cv_cpp.termInfos_) > 1

\* a run that ends because a file does not parse has written nothing
C21_ParseErrorWritesNothing ==
    (MainEnded /\ BadFiles # {}) => (ret.kind = "exit1" /\ NothingWritten)

\* C22: the files are parsed in command-line order, one at a time, all of
\* them before the first byte of an artifact is written; none is read after
\* emission has begun; when the k-th file does not parse no later file is
\* parsed and nothing is written.
C22_ParseAllThenEmit ==
    /\ [](call.op = "main" =>
             /\ Len(obos) <= Len(call.argv)
             /\ \A i \in 1..Len(obos) :
                   call.argv[i].outcome = "parsed" /\ obos[i] = call.argv[i].obo
             /\ ~NothingWritten => Len(obos) = Len(call.argv)
             /\ \A k \in BadFiles : Len(obos) < k /\ NothingWritten)
    /\ [][/\ Len(obos') \in {Len(obos), Len(obos) + 1}
          /\ ~NothingWritten => obos' = obos]_vars

\* the second of two files does not parse: the first was parsed, the run
\* has ended, and nothing was written
C22_Witness ==
    /\ MainEnded
    /\ Len(call.argv) = 2
    /\ BadFiles = {2}
    /\ Len(obos) = 1
    /\ obos[1] = call.argv[1].obo
    /\ NothingWritten

\* both files were written to their end
EmissionCompleted ==
    /\ cv_hpp = writeHpp
    /\ Len(cv_cpp.termInfos_) > 0
    /\ Len(cv_cpp.oboPrefixes_) = Len(obos)

\* C23: the exit code is 0 exactly when a file was named and parsing and
\* emission completed without an exception; it is 1 when no file was named,
\* nothing being parsed or written, and 1 when an exception was caught,
\* whatever its kind.
C23_ExitCode ==
    MainEnded =>
        /\ ret.kind = "exit0" <=>
              /\ call.argv # <<>>
              /\ BadFiles = {}
              /\ Len(obos) = Len(call.argv)
              /\ EmissionCompleted
        /\ call.argv = <<>> => (ret.kind = "exit1" /\ obos = <<>> /\ NothingWritten)
        /\ BadFiles # {} => ret.kind = "exit1"

\* the exception that is not a std::exception, thrown on the second file, has
\* ended the run with exit code 1
C23_Witness ==
    /\ MainEnded
    /\ Len(call.argv) = 2
    /\ call.argv[1].outcome = "parsed"
    /\ call.argv[2].outcome = "unknown exception"
    /\ ret.kind = "exit1"

\* two files were named, parsed and emitted, and the exit code is 0
C23_WitnessSuccess ==
    /\ MainEnded
    /\ Len(call.argv) = 2
    /\ BadFiles = {}
    /\ ~HasDangling
    /\ EmissionCompleted
    /\ ret.kind = "exit0"

\* the row links a term of some input file to a term of that same file
SameNamespaceEdge(row) ==
    \E i \in 1..Len(obos) : \E a, b \in 1..Len(obos[i].terms) :
       /\ row.first = GlobalCode(i, obos[i].terms[a].id)
       /\ row.second = GlobalCode(i, obos[i].terms[b].id)

EdgesInNamespace(tbl) == \A j \in 1..Len(tbl) : SameNamespaceEdge(tbl[j])

\* C24: every row of the emitted is-a table and of the part-of table links a
\* child term to a parent term of the same namespace, the parent id being
\* looked up in the term map of the child's own file only, also when another
\* file has a term of that local id.
C24_EdgesStayInNamespace ==
    (call.op = "main" /\ ret.kind # "none") =>
        /\ EdgesInNamespace(cv_cpp.relationsIsA_)
        /\ EdgesInNamespace(cv_cpp.relationsPartOf_)

\* MS:0000001 names the is-a parent 99999999, which only the UO file has: the
\* row written for it holds what was read through the null pointer, the code
\* of no term of MS
C24_Reached ==
    /\ Generated
    /\ HasDangling
    /\ Len(obos) = 2
    /\ \E j \in 1..Len(cv_cpp.relationsIsA_) :
          /\ cv_cpp.relationsIsA_[j].first = GlobalCode(1, 1)
          /\ cv_cpp.relationsIsA_[j].second = NullDeref
          /\ ~SameNamespaceEdge(cv_cpp.relationsIsA_[j])

\* where every parent named is a term of the same file, every row links two
\* terms of one file, also when both files hold the same local ids
C24_InNamespaceWhereResolved ==
    (Finished /\ ~HasDangling) =>
        /\ EdgesInNamespace(cv_cpp.relationsIsA_)
        /\ EdgesInNamespace(cv_cpp.relationsPartOf_)

\* two files of the same local ids, each with a reference: one row for each
\* file, each within its file's block
C24_InNamespaceReached ==
    /\ Generated
    /\ ~HasDangling
    /\ Len(obos) = 2
    /\ \E j, k \in 1..Len(cv_cpp.relationsIsA_) :
          /\ cv_cpp.relationsIsA_[j].first < enumBlockSize_
          /\ cv_cpp.relationsIsA_[j].second < enumBlockSize_
          /\ cv_cpp.relationsIsA_[k].first >= enumBlockSize_
          /\ cv_cpp.relationsIsA_[k].second >= enumBlockSize_

\* the length, in references, of the longest path from code c over the
\* edges E of an acyclic graph
RECURSIVE LongestPath(_, _)
LongestPath(E, c) ==
    LET next == {e[2] : e \in {d \in E : d[1] = c}}
    IN IF next = {} THEN 0
       ELSE 1 + (CHOOSE n \in {LongestPath(E, d) : d \in next} :
                    \A k \in {LongestPath(E, d) : d \in next} : k <= n)

\* C25: on an acyclic is-a graph cvIsA(child, parent) returns for every pair
\* of codes, those of no term included, and its recursion is never deeper
\* than the longest is-a path that starts at child.
C25_IsATerminatesWithinLongestPath ==
    call.op = "cvIsA" =>
        \E E \in {EdgesOf("parentsIsA")} :
            Acyclic(E) =>
                /\ ret.kind = "bool"
                /\ ret.depth <= LongestPath(E, call.cvid)

\* cvIsA(A, x) for a code x of no term, where A is-a B and B is-a C: false,
\* after two calls nested in the first
C25_Witness ==
    /\ call.op = "cvIsA"
    /\ call.parent = NonTermCode
    /\ Acyclic(EdgesOf("parentsIsA"))
    /\ LongestPath(EdgesOf("parentsIsA"), call.cvid) = 2
    /\ ret.kind = "bool" /\ ~ret.flag
    /\ ret.depth = 2

\* cvIsA(x, A) for a code x of no term has returned false at once
C25_WitnessNoTerm ==
    /\ call.op = "cvIsA"
    /\ call.cvid = NonTermCode
    /\ call.parent # NonTermCode
    /\ EdgesOf("parentsIsA") # {}
    /\ ret.kind = "bool" /\ ~ret.flag
    /\ ret.depth = 0

\* the is-a parents of code c in the order of the rows of relationsIsA_
TableParents(c) ==
    LET rows == SelectSeq(cv_cpp.relationsIsA_, LAMBDA r : r.first = c)
    IN [k \in 1..Len(rows) |-> rows[k].second]

\* the rows of relationsIsA_ as pairs <<child, parent>>
TableEdges ==
    {<<cv_cpp.relationsIsA_[j].first, cv_cpp.relationsIsA_[j].second>> :
        j \in 1..Len(cv_cpp.relationsIsA_)}

\* code c lies on an is-a cycle
OnCycle(c) == \E e \in TableEdges : e[1] = c /\ c \in ReachFrom(TableEdges, {e[2]})

\* the codes from which the walk comes back with false: neither parent nor
\* a code on a cycle is reached from them
DeadEnds(parent) ==
    {c \in CodeArgs :
        \A d \in ReachFrom(TableEdges, {c}) : d # parent /\ ~OnCycle(d)}

\* the depth-first walk from code c, parents taken in table order and the
\* parents it comes back from with false passed over, returns to a code it
\* is already in, not having met parent
RECURSIVE EntersCycle(_, _, _)
EntersCycle(c, parent, seen) ==
    IF c = parent THEN FALSE
    ELSE IF c \in seen THEN TRUE
    ELSE LET live == SelectSeq(TableParents(c), LAMBDA d : d \notin DeadEnds(parent))
         IN IF live = <<>> THEN FALSE
            ELSE EntersCycle(Head(live), parent, seen \cup {c})

\* C26: cvIsA keeps no visited set and no depth bound: when its depth-first
\* walk over the is-a parents, in table order, enters a cycle that does not
\* hold parent before it reaches parent, cvIsA(child, parent) never returns,
\* also when parent is reached from child through a parent listed later.
C26_CycleBeforeParentDiverges ==
    (call.op = "cvIsA" /\ EntersCycle(call.cvid, call.parent, {}))
    => ret.kind = "diverges"

\* child lists a parent that is its own is-a parent and, after it, parent
\* itself: cvIsA(child, parent) does not return
C26_Witness ==
    /\ call.op = "cvIsA"
    /\ call.cvid # call.parent
    /\ Len(TableParents(call.cvid)) = 2
    /\ TableParents(call.cvid)[2] = call.parent
    /\ TableParents(call.cvid)[1] \notin {call.cvid, call.parent}
    /\ <<TableParents(call.cvid)[1], TableParents(call.cvid)[1]>> \in TableEdges
    /\ EntersCycle(call.cvid, call.parent, {})
    /\ ret.kind = "diverges"

\* and the walk returns whenever it does not enter such a cycle
C26_ReturnsOtherwise ==
    (call.op = "cvIsA" /\ ~EntersCycle(call.cvid, call.parent, {}))
    => ret.kind = "bool"

\* C27: no term of any namespace has the code CVID_Unknown, and once
\* initialize() has run the code-to-term map holds under CVID_Unknown the one
\* record built from the sentinel row, of id string "??:0000000", which no
\* term row has replaced.
C27_SentinelApartFromTerms ==
    /\ \A p \in TermPlaces :
          /\ CodeOf(TermAt(p[1], p[2])) # CVID_Unknown
          /\ GlobalCode(p[1], TermAt(p[1], p[2]).id) # CVID_Unknown
    /\ \A k \in 1..Len(cv_cpp.termInfos_) :
          cv_cpp.termInfos_[k].cvid = CVID_Unknown <=> k = 1
    /\ initialized_ =>
          /\ CVID_Unknown \in DOMAIN infoMap_
          /\ infoMap_[CVID_Unknown] = SentinelRecord
          /\ infoMap_[CVID_Unknown].id = <<"?", "?", ":", "0", "0", "0", "0", "0", "0", "0">>
          /\ \A c \in DOMAIN infoMap_ :
                infoMap_[c].cvid = CVID_Unknown
                   => (c = CVID_Unknown \/ infoMap_[c] = DefaultCVTermInfo)

\* the first file has the term of local id 0, whose code is next to -1, the
\* maps are built, and cvTermInfo(CVID_Unknown) has returned the sentinel record
C27_Witness ==
    /\ initialized_
    /\ \E a \in 1..Len(obos[1].terms) : obos[1].terms[a].id = 0
    /\ 0 \in DOMAIN infoMap_
    /\ infoMap_[0].cvid = 0
    /\ call.op = "cvTermInfo"
    /\ call.cvid = CVID_Unknown
    /\ ret.kind = "info"
    /\ ret.info = SentinelRecord

\* C28: for an id string P:digits of a loaded prefix P whose digits
\* convert, cvTermInfo returns a term of namespace P or a record of cvid
\* CVID_Unknown, never a term of another namespace, also when the number is
\* enumBlockSize_ or more.
C28_LookupStaysInNamespace ==
    (LoadedPrefixCall /\ ret.kind = "info") =>
        \/ ret.info.cvid = CVID_Unknown
        \/ /\ Cardinality(Colons(ret.info.id)) = 1
           /\ PrefixToken(ret.info.id) = PrefixToken(call.id)

\* MS is the first file and UO the second, with the term UO:0000001:
\* cvTermInfo("MS:100000001") has returned the record of UO:0000001
C28_Reached ==
    /\ LoadedPrefixCall
    /\ Len(obos) = 2
    /\ obos[1].prefix = MS
    /\ call.id = MS \o <<":", "1", "0", "0", "0", "0", "0", "0", "0", "1">>
    /\ ret.kind = "info"
    /\ ret.info.cvid = enumBlockSize_ + 1
    /\ ret.info.id = UO \o <<":", "0", "0", "0", "0", "0", "0", "1">>

\* a number below enumBlockSize_ gives a term of the prefix named, or a
\* record of cvid CVID_Unknown
C28_InNamespaceBelowBlockSize ==
    (LoadedPrefixCall /\ ret.kind = "info"
        /\ strtoul(NumberToken(call.id)).value < enumBlockSize_) =>
        \/ ret.info.cvid = CVID_Unknown
        \/ PrefixToken(ret.info.id) = PrefixToken(call.id)

\* what the call c returns, or ends in, when it is the first call made in
\* the process: the maps are those initialize() has just built
FirstCallReturn(c) ==
    IF c.op = "cv"
    THEN [NoRet EXCEPT !.kind = "cv", !.cv = TouchCV(InitialCVMap, c.prefix)[c.prefix]]
    ELSE IF c.op = "cvTermInfo"
    THEN [NoRet EXCEPT !.kind = "info", !.key = c.cvid,
                       !.info = Touch(InitialInfoMap, c.cvid)[c.cvid]]
    ELSE IF c.op = "cvTermInfoId"
    THEN LET r == LookupId(c.id)
         IN IF r.kind = "info"
            THEN [NoRet EXCEPT !.kind = "info", !.key = r.key,
                               !.info = Touch(InitialInfoMap, r.key)[r.key]]
            ELSE [NoRet EXCEPT !.kind = r.kind]
    ELSE IF c.op = "cvIsA"
    THEN LET m == IF c.cvid = c.parent THEN EmptyMap ELSE Touch(InitialInfoMap, c.cvid)
             r == IsAWalk(m, c.cvid, c.parent, {})
         IN IF r = "diverges" THEN [NoRet EXCEPT !.kind = "diverges"]
            ELSE [NoRet EXCEPT !.kind = "bool", !.flag = (r = "true"),
                               !.depth = IsADepth(m, c.cvid, c.parent, {})]
    ELSE [NoRet EXCEPT !.kind = "cvids", !.list = InitialCvids]

AccessorOps == {"cv", "cvTermInfo", "cvTermInfoId", "cvIsA", "cvids"}

\* C29: what cv, cvTermInfo (either overload), cvIsA and cvids return, or the
\* error they end in, is the same after any sequence of earlier accessor calls
\* as when the call is the first one made in the process.
C29_ReturnIndependentOfHistory ==
    call.op \in AccessorOps => ret = FirstCallReturn(call)

\* cvTermInfo of a term's code has returned the term's record after earlier
\* calls have put records for a code of no term and for a prefix of no file
\* into the maps
C29_Witness ==
    /\ call.op = "cvTermInfo"
    /\ call.cvid \in TermCodes
    /\ ret.kind = "info"
    /\ ret.info.cvid = call.cvid
    /\ NonTermCode \in DOMAIN infoMap_
    /\ <<"X">> \in DOMAIN cvMap_
    /\ infoMap_ # InitialInfoMap
    /\ ret = FirstCallReturn(call)

\* the maps and the list are what one whole run of initialize() makes them
FullyBuilt ==
    /\ infoMap_ = InitialInfoMap
    /\ cvids_ = InitialCvids
    /\ cvMap_ = InitialCVMap

\* C30: under concurrent first access no accessor returns data read from maps
\* that are partly built: whenever an accessor is at its return statement in
\* some thread, what it reads is fully initialized, all parents, all
\* synonyms and every code, whatever the other threads are doing.
C30_ReturnsFullyBuilt ==
    \A t \in Threads : pc[t].at = "return" => FullyBuilt

\* one thread has finished initialize() and is at its return statement while
\* the other, inside initialize(), has just stored a row again: the record of
\* the term has lost the is-a parent the first thread had appended
C30_Reached ==
    \E t, u \in Threads :
       /\ pc[t].at = "return"
       /\ pc[u].at = "init"
       /\ initialized_
       /\ \E c \in DOMAIN InitialInfoMap :
             /\ c \in DOMAIN infoMap_
             /\ InitialInfoMap[c].parentsIsA # <<>>
             /\ infoMap_[c].parentsIsA = <<>>

=============================================================================
